---------------------------- MODULE Spec2Model ----------------------------
(***************************************************************************)
(* A model of the two programs of the repository:                          *)
(*   src/main.py  GenAI Studio: GitManager, PythonDebugger, ConfigManager, *)
(*                AIProviderFactory, RefactorWorker, FullFeatureIDE        *)
(*   src/app.py   Tunner Suite: AIWorker, TunnerSuite                      *)
(*                                                                         *)
(* The two programs are separate executables: a behaviour runs one of     *)
(* them (program).  SpecGit is a GitManager on its own, reading long       *)
(* status outputs; SpecVcs the GitManager of a GenAI Studio window with    *)
(* all its operations and the window's slots; SpecDispatch the two         *)
(* windows with their worker threads; SpecCore the dispatcher of Tunner    *)
(* Suite or the GitManager of GenAI Studio; SpecPrompt the workers'        *)
(* prompt construction on long contents; SpecPanel the handlers of the     *)
(* window's git panel; SpecDebug the PythonDebugger and its children.      *)
(*                                                                         *)
(* Text that the code slices, strips or splits is a sequence of one-       *)
(* character strings; text the code only passes on (messages, model       *)
(* names) is a string.                                                     *)
(***************************************************************************)
EXTENDS Integers, Sequences, FiniteSets, TLC

VARIABLES
    program,        \* what runs: "app" (src/app.py), "ide" (src/main.py),
                    \* "git" (a GitManager of src/main.py with no slot
                    \* connected), or "prompt" (a worker's prompt
                    \* construction on its own)
    env,            \* os.environ: provider -> the value of <PROVIDER>_API_KEY
    appStore,       \* QSettings("SPU", "Ultimate"): provider -> "<p>_key"
    ideStore,       \* QSettings("GenAI_Studio", "SecureKeys"): provider -> key
    current_mode,   \* TunnerSuite.current_mode: "code" or "edu"
    btn_run,        \* TunnerSuite.btn_run.isEnabled()
    btn_refactor,   \* FullFeatureIDE.btn_refactor.isEnabled()
    appTasks,       \* the AIWorker threads that are not yet forgotten
    ideTasks,       \* the RefactorWorker threads that are not yet forgotten
    uiEvent,        \* the handler the interactive thread ran last, its inputs
    promptIn,       \* the worker fields a prompt is built from
    promptOut,      \* the prompt built from them
    repo_path,      \* GitManager.repo_path: NoPath or a directory
    gitPc,          \* "idle", or "run" while a call waits in subprocess.run
    gitCall,        \* the GitManager method called last, with its arguments
    gitProc,        \* the processes that call spawned: <<[args, cwd, res]>>
    gitSignals,     \* the signals that call emitted, in order
    gitRet,         \* what that call returned
    git_status_list,\* FullFeatureIDE.git_status_list: the items displayed
    gitBefore,      \* history: the list, the failures and the branch pushed
                    \* or pulled before the call that is made last
    git_commit_input, \* FullFeatureIDE.git_commit_input.text()
    gitCaller,      \* the handler of the window that made the call made
                    \* last, "" when another caller made it
    lastKey,        \* history: the key of the provider call made last
    breakpoints,    \* PythonDebugger.breakpoints
    process,        \* PythonDebugger.process: 0 (None) or an index of children
    children,       \* the child processes started so far: <<[file, state]>>
    dbgCall,        \* the PythonDebugger method called last, its arguments
    dbgRan,         \* the text of the file python3 was started on last
    dbgSignals      \* the signals the debugger emitted in its last step

gitVars == <<repo_path, gitPc, gitCall, gitProc, gitSignals, gitRet,
             git_status_list, gitBefore, git_commit_input, gitCaller>>

credVars == <<env, appStore, ideStore>>

appVars == <<current_mode, btn_run, appTasks>>

ideVars == <<btn_refactor, ideTasks>>

promptVars == <<promptIn, promptOut>>

dbgVars == <<breakpoints, process, children, dbgCall, dbgRan, dbgSignals>>

vars == <<program, env, appStore, ideStore, current_mode, btn_run,
          btn_refactor, appTasks, ideTasks, uiEvent, promptIn, promptOut,
          repo_path, gitPc, gitCall, gitProc, gitSignals, gitRet,
          git_status_list, gitBefore, git_commit_input, gitCaller, lastKey,
          breakpoints, process, children, dbgCall, dbgRan, dbgSignals>>

-----------------------------------------------------------------------------
(* Bounds of the model *)

\* the most lines a generated porcelain output has
MaxLines == 3

\* the most worker threads of one window the model lets exist at a time
MaxTasks == 2

\* how many characters past a truncation limit the longest content is
LongBy == 1

\* the longest of the short contents a prompt is built from
ShortLen == 2

\* the highest line a breakpoint is set at
MaxBp == 2

\* the most child processes a debugger starts
MaxRuns == 2

-----------------------------------------------------------------------------
(* Python's str operations, on sequences of characters *)

\* str.strip() with no argument removes these (the ones the model's texts hold)
Whitespace == {" ", "\n", "\t"}

RECURSIVE LStrip(_)
LStrip(s) ==
    IF s # <<>> /\ Head(s) \in Whitespace THEN LStrip(Tail(s)) ELSE s

RECURSIVE RStrip(_)
RStrip(s) ==
    IF s # <<>> /\ s[Len(s)] \in Whitespace
    THEN RStrip(SubSeq(s, 1, Len(s) - 1))
    ELSE s

\* s.strip()
Strip(s) == RStrip(LStrip(s))

\* s[:n]
Take(s, n) == SubSeq(s, 1, IF Len(s) < n THEN Len(s) ELSE n)

\* s[n:]
Drop(s, n) == SubSeq(s, n + 1, Len(s))

\* s.split('\n'): always at least one piece, the pieces hold no '\n'
RECURSIVE SplitLines(_)
SplitLines(s) ==
    IF \E i \in 1..Len(s) : s[i] = "\n"
    THEN LET i == CHOOSE k \in 1..Len(s) :
                     s[k] = "\n" /\ \A j \in 1..(k - 1) : s[j] # "\n"
         IN  <<SubSeq(s, 1, i - 1)>> \o SplitLines(Drop(s, i))
    ELSE <<s>>

RECURSIVE Concat(_)
Concat(ss) == IF ss = <<>> THEN <<>> ELSE Head(ss) \o Concat(Tail(ss))

\* the elements of a sequence
Range(s) == {s[i] : i \in 1..Len(s)}

-----------------------------------------------------------------------------
(* What git can print and how a process can end *)

\* the two-character codes of `git status --porcelain` the model draws from:
\* the five the parser knows and two it does not
Codes == { <<" ", "M">>, <<"M", " ">>, <<"A", " ">>, <<"D", " ">>,
           <<"?", "?">>, <<" ", "D">>, <<"M", "M">> }

Paths == { <<"a", "b">>, <<"b">> }

\* one porcelain line: code, a space, the path, the newline
StatusLine(code, path) == code \o <<" ">> \o path \o <<"\n">>

StatusLines == {StatusLine(c, p) : c \in Codes, p \in Paths}

\* " M a.txt", "?? b.txt", "A  c.txt", "D  d.txt", newline separated
ScenarioOutput ==
    <<" ", "M", " ", "a", ".", "t", "x", "t", "\n",
      "?", "?", " ", "b", ".", "t", "x", "t", "\n",
      "A", " ", " ", "c", ".", "t", "x", "t", "\n",
      "D", " ", " ", "d", ".", "t", "x", "t", "\n">>

SeqsUpTo(S, n) == UNION {[1..k -> S] : k \in 0..n}

StatusOutputs ==
    {Concat(ls) : ls \in SeqsUpTo(StatusLines, MaxLines)} \cup {ScenarioOutput}

\* what `git branch --show-current` can print: nothing (detached HEAD), a
\* branch name and a newline, a branch that is named unknown, a bare newline
BranchOutputs ==
    { <<>>,
      <<"m", "a", "i", "n", "\n">>,
      <<"d", "e", "v", "\n">>,
      <<"u", "n", "k", "n", "o", "w", "n", "\n">>,
      <<"\n">> }

\* how subprocess.run can end: the process exits with a return code, its
\* stdout and its stderr, or subprocess.run raises (git is missing, or the
\* 30 seconds are over and the child was killed)
Exit(rc, out, err) == [kind |-> "exit", rc |-> rc, out |-> out, err |-> err]
Raise(msg) == [kind |-> "raise", rc |-> -1, out |-> <<>>, err |-> msg]

\* subprocess.run could not start git: FileNotFoundError
LaunchFailed == Raise("[Errno 2] No such file or directory: 'git'")

\* the process ran longer than the timeout: subprocess.run kills it and
\* raises TimeoutExpired
TimedOut == Raise("Command '['git', ...]' timed out after 30 seconds")

Failures ==
    { Exit(128, <<>>, "fatal: not a git repository"),
      Exit(1, <<"x", "\n">>, "error: failed"),
      LaunchFailed,
      TimedOut }

\* the ways a git command with the given successful outputs can end
Results(outs) == {Exit(0, o, "") : o \in outs} \cup Failures

-----------------------------------------------------------------------------
(* GitManager *)

NoPath == "<None>"
RepoPaths == {"/r1", "/r2"}

\* a Python value that is None or a text
None == [isNone |-> TRUE, text |-> <<>>]
Some(t) == [isNone |-> FALSE, text |-> t]

Signal(name, arg) == [sig |-> name, arg |-> arg]

\* the result of a process that has not ended yet
Running == [kind |-> "running", rc |-> -1, out |-> <<>>, err |-> ""]

\* the process of a command, as subprocess.run is given it
Proc(path, args, res) ==
    [args |-> <<"git">> \o args, cwd |-> path, timeout |-> 30, res |-> res]

\* a failure that is not reported: None is returned and nothing is emitted
run_git_command_quiet(path, args, res) ==
    IF path = NoPath
    THEN [ret |-> None,
          signals |-> <<Signal("error_occurred", "No repository path set")>>,
          procs |-> <<>>]
    ELSE [ret |-> IF res.kind = "exit" /\ res.rc = 0 THEN Some(res.out)
                                                     ELSE None,
          signals |-> <<>>,
          procs |-> <<Proc(path, args, res)>>]

\* no check of repo_path: subprocess.run is given cwd=None and runs git in
\* the directory of the caller's process
run_git_command_unchecked(path, args, res) ==
    LET p == <<Proc(path, args, res)>>
    IN  IF res = Running
        THEN [ret |-> None, signals |-> <<>>, procs |-> p]
        ELSE IF res.kind = "exit" /\ res.rc = 0
        THEN [ret |-> Some(res.out), signals |-> <<>>, procs |-> p]
        ELSE [ret |-> None,
              signals |-> <<Signal("error_occurred", res.err)>>,
              procs |-> p]

\* an exception of subprocess.run taken for its end: what was captured of
\* stdout is returned and nothing is emitted
run_git_command_partial(path, args, res) ==
    IF path = NoPath
    THEN [ret |-> None,
          signals |-> <<Signal("error_occurred", "No repository path set")>>,
          procs |-> <<>>]
    ELSE LET p == <<Proc(path, args, res)>>
         IN  IF res = Running
             THEN [ret |-> None, signals |-> <<>>, procs |-> p]
             ELSE IF res.kind = "raise" \/ res.rc = 0
             THEN [ret |-> Some(res.out), signals |-> <<>>, procs |-> p]
             ELSE [ret |-> None,
                   signals |-> <<Signal("error_occurred", res.err)>>,
                   procs |-> p]

\* a failed command that is run a second time before the error is emitted
run_git_command_retry(path, args, res) ==
    IF path = NoPath
    THEN [ret |-> None,
          signals |-> <<Signal("error_occurred", "No repository path set")>>,
          procs |-> <<>>]
    ELSE LET p == <<Proc(path, args, res)>>
         IN  IF res = Running
             THEN [ret |-> None, signals |-> <<>>, procs |-> p]
             ELSE IF res.kind = "exit" /\ res.rc = 0
             THEN [ret |-> Some(res.out), signals |-> <<>>, procs |-> p]
             ELSE [ret |-> None,
                   signals |-> <<Signal("error_occurred", res.err)>>,
                   procs |-> p \o p]

\* subprocess.run without cwd: git runs in the directory of the caller's
\* process although a repository path is set
run_git_command_no_cwd(path, args, res) ==
    IF path = NoPath
    THEN [ret |-> None,
          signals |-> <<Signal("error_occurred", "No repository path set")>>,
          procs |-> <<>>]
    ELSE LET p == <<Proc(NoPath, args, res)>>
         IN  IF res = Running
             THEN [ret |-> None, signals |-> <<>>, procs |-> p]
             ELSE IF res.kind = "exit" /\ res.rc = 0
             THEN [ret |-> Some(res.out), signals |-> <<>>, procs |-> p]
             ELSE [ret |-> None,
                   signals |-> <<Signal("error_occurred", res.err)>>,
                   procs |-> p]

\* run_git_command(args) when subprocess.run, if it is reached, ends as res:
\* the value returned, the signals emitted and the processes spawned.  While
\* the process runs the caller is blocked in subprocess.run: nothing is
\* returned or emitted yet.
run_git_command(path, args, res) ==
    IF path = NoPath
    THEN [ret |-> None,
          signals |-> <<Signal("error_occurred", "No repository path set")>>,
          procs |-> <<>>]
    ELSE LET p == <<Proc(path, args, res)>>
         IN  IF res = Running
             THEN [ret |-> None, signals |-> <<>>, procs |-> p]
             ELSE IF res.kind = "exit" /\ res.rc = 0
             THEN [ret |-> Some(res.out), signals |-> <<>>, procs |-> p]
             ELSE [ret |-> None,
                   signals |-> <<Signal("error_occurred", res.err)>>,
                   procs |-> p]

EmptyStatus ==
    [modified |-> <<>>, added |-> <<>>, deleted |-> <<>>, untracked |-> <<>>]

\* get_status's {} for a failed command
EmptyDict == [isEmpty |-> TRUE, status |-> EmptyStatus]
Dict(st) == [isEmpty |-> FALSE, status |-> st]

\* one turn of get_status's loop
ClassifyLine(status, line) ==
    LET status_code == Take(line, 2)
        filepath == Drop(line, 3)
    IN  IF line = <<>> THEN status
        ELSE IF status_code = <<" ", "M">> \/ status_code = <<"M", " ">>
        THEN [status EXCEPT !.modified = Append(@, filepath)]
        ELSE IF status_code = <<"A", " ">>
        THEN [status EXCEPT !.added = Append(@, filepath)]
        ELSE IF status_code = <<"D", " ">>
        THEN [status EXCEPT !.deleted = Append(@, filepath)]
        ELSE IF status_code = <<"?", "?">>
        THEN [status EXCEPT !.untracked = Append(@, filepath)]
        ELSE status

RECURSIVE ClassifyLines(_, _)
ClassifyLines(status, lines) ==
    IF lines = <<>> THEN status
    ELSE ClassifyLines(ClassifyLine(status, Head(lines)), Tail(lines))

\* the lines get_status loops over
StatusInput(output) == SplitLines(Strip(output))

\* the dict get_status builds from the command's output
ParseStatus(output) == ClassifyLines(EmptyStatus, StatusInput(output))

\* get_status(): the dict returned, the signals emitted, the processes spawned
get_status(path, res) ==
    LET r == run_git_command(path, <<"status", "--porcelain">>, res)
    IN  IF r.ret.isNone
        THEN [ret |-> EmptyDict, signals |-> r.signals, procs |-> r.procs]
        ELSE LET st == ParseStatus(r.ret.text)
             IN  [ret |-> Dict(st),
                  signals |-> r.signals \o <<Signal("status_updated", st)>>,
                  procs |-> r.procs]

Unknown == <<"u", "n", "k", "n", "o", "w", "n">>

\* get_branch(): `output.strip() if output else "unknown"`; None and the
\* empty text are both falsy
get_branch(path, res) ==
    LET r == run_git_command(path, <<"branch", "--show-current">>, res)
    IN  [ret |-> IF r.ret.isNone \/ r.ret.text = <<>>
                 THEN Unknown
                 ELSE Strip(r.ret.text),
         signals |-> r.signals,
         procs |-> r.procs]

\* the outputs the command of a read operation can print
Outputs(op) == IF op = "get_status" THEN StatusOutputs ELSE BranchOutputs

\* the whole call of a read operation when its process ends as res
Complete(op, path, res) ==
    IF op = "get_status"
    THEN get_status(path, res)
    ELSE LET r == get_branch(path, res)
         IN  [ret |-> Some(r.ret), signals |-> r.signals, procs |-> r.procs]

GitInit ==
    /\ repo_path = NoPath
    /\ gitPc = "idle"
    /\ gitCall = [op |-> "__init__", args |-> <<>>]
    /\ gitProc = <<>>
    /\ gitSignals = <<>>
    /\ gitRet = None
    /\ git_status_list = <<>>
    /\ gitBefore = [list |-> <<>>, failed |-> FALSE, branch |-> None]
    /\ git_commit_input = <<>>
    /\ gitCaller = ""

\* set_repo_path(path), as select_folder calls it
SetRepoPath ==
    /\ gitPc = "idle"
    /\ \E path \in RepoPaths :
        /\ repo_path' = path
        /\ gitCall' = [op |-> "set_repo_path", args |-> <<path>>]
    /\ gitProc' = <<>>
    /\ gitSignals' = <<>>
    /\ gitRet' = None
    /\ gitCaller' = ""
    /\ UNCHANGED <<gitPc, git_status_list, gitBefore, git_commit_input>>
    /\ UNCHANGED <<dbgVars, program, credVars, appVars, ideVars, uiEvent, promptVars,
                   lastKey>>

\* The caller enters get_status or get_branch. Without a repository path
\* run_git_command returns at once and the call is over; with one the call
\* blocks in subprocess.run until the process ends.
GitCall(op) ==
    /\ gitPc = "idle"
    /\ gitCall' = [op |-> op, args |-> <<>>]
    /\ IF repo_path = NoPath
       THEN LET r == Complete(op, repo_path, Running)
            IN  /\ gitProc' = r.procs
                /\ gitSignals' = r.signals
                /\ gitRet' = r.ret
                /\ UNCHANGED gitPc
       ELSE /\ gitProc' = Complete(op, repo_path, Running).procs
            /\ gitSignals' = <<>>
            /\ gitRet' = None
            /\ gitPc' = "run"
    /\ UNCHANGED <<repo_path, git_status_list, gitBefore, git_commit_input,
                   gitCaller>>
    /\ UNCHANGED <<dbgVars, program, credVars, appVars, ideVars, uiEvent, promptVars,
                   lastKey>>

GetStatus == GitCall("get_status")

GetBranch == GitCall("get_branch")

\* subprocess.run returns or raises, and the call runs to its end
ProcEnd ==
    /\ gitPc = "run"
    /\ \E res \in Results(Outputs(gitCall.op)) :
        LET r == Complete(gitCall.op, repo_path, res)
        IN  /\ gitProc' = r.procs
            /\ gitSignals' = r.signals
            /\ gitRet' = r.ret
    /\ gitPc' = "idle"
    /\ UNCHANGED <<repo_path, gitCall, git_status_list, gitBefore,
                   git_commit_input, gitCaller>>
    /\ UNCHANGED <<dbgVars, program, credVars, appVars, ideVars, uiEvent, promptVars,
                   lastKey>>

-----------------------------------------------------------------------------
(* GitManager: the operations that take arguments or run more than one     *)
(* command, and the slots FullFeatureIDE connects to its signals.  An      *)
(* operation is given rs, the results of the commands it has run so far,  *)
(* in order; a command with no result yet is running and the operation    *)
(* goes no further.                                                        *)

Res(rs, i) == IF i <= Len(rs) THEN rs[i] ELSE Running

\* the operation waits in subprocess.run
Blocked(r) == r.procs # <<>> /\ r.procs[Len(r.procs)].res = Running

\* a `filepath=None` argument
NoFile == "<None>"

\* a files argument: one str, or a list of str
Str(x) == [isStr |-> TRUE, items |-> <<x>>]
List(xs) == [isStr |-> FALSE, items |-> xs]

\* ', '.join(files), in pieces
RECURSIVE Join(_)
Join(xs) ==
    IF xs = <<>> THEN <<>>
    ELSE IF Len(xs) = 1 THEN xs
    ELSE <<Head(xs), ", ">> \o Join(Tail(xs))

\* f'-{count}'
LogCount(count) == CASE count = 10 -> "-10" [] count = 5 -> "-5"

\* get_diff(filepath)
get_diff(path, filepath, res) ==
    run_git_command(path,
                    IF filepath \in {NoFile, ""} THEN <<"diff">>
                                                 ELSE <<"diff", filepath>>,
                    res)

\* a get_log that returns its output without the surrounding whitespace
get_log_stripped(path, count, res) ==
    LET r == run_git_command(path, <<"log", LogCount(count), "--oneline">>,
                             res)
    IN  [ret |-> IF r.ret.isNone THEN Some(<<>>) ELSE Some(Strip(r.ret.text)),
         signals |-> r.signals,
         procs |-> r.procs]

\* get_log(count): `output if output else ""`
get_log(path, count, res) ==
    LET r == run_git_command(path, <<"log", LogCount(count), "--oneline">>,
                             res)
    IN  [ret |-> IF r.ret.isNone THEN Some(<<>>) ELSE r.ret,
         signals |-> r.signals,
         procs |-> r.procs]

\* an add_files that tests `if output:` and so takes a command that printed
\* nothing for one that failed
add_files_truthy(path, files, rs) ==
    LET r == run_git_command(path, <<"add">> \o files.items, Res(rs, 1))
    IN  IF r.ret.isNone \/ r.ret.text = <<>>
        THEN [ret |-> None, signals |-> r.signals, procs |-> r.procs]
        ELSE LET s == get_status(path, Res(rs, 2))
             IN  [ret |-> None,
                  signals |->
                      r.signals
                      \o <<Signal("output_ready",
                                  <<"Added files: ">> \o Join(files.items))>>
                      \o s.signals,
                  procs |-> r.procs \o s.procs]

\* add_files(files)
add_files(path, files, rs) ==
    LET r == run_git_command(path, <<"add">> \o files.items, Res(rs, 1))
    IN  IF r.ret.isNone
        THEN [ret |-> None, signals |-> r.signals, procs |-> r.procs]
        ELSE LET s == get_status(path, Res(rs, 2))
             IN  [ret |-> None,
                  signals |->
                      r.signals
                      \o <<Signal("output_ready",
                                  <<"Added files: ">> \o Join(files.items))>>
                      \o s.signals,
                  procs |-> r.procs \o s.procs]

\* commit(message)
commit(path, message, rs) ==
    LET r == run_git_command(path, <<"commit", "-m", message>>, Res(rs, 1))
    IN  IF r.ret.isNone
        THEN [ret |-> None, signals |-> r.signals, procs |-> r.procs]
        ELSE LET s == get_status(path, Res(rs, 2))
             IN  [ret |-> None,
                  signals |->
                      r.signals
                      \o <<Signal("output_ready",
                                  <<"Committed: ">> \o message)>>
                      \o s.signals,
                  procs |-> r.procs \o s.procs]

\* `if branch is None: branch = self.get_branch()`
BranchArg(path, branch, rs) ==
    IF branch.isNone
    THEN get_branch(path, Res(rs, 1))
    ELSE [ret |-> branch.text, signals |-> <<>>, procs |-> <<>>]

\* a default branch that is a fixed name instead of the current branch
push_to_main(path, remote, branch, rs) ==
    LET name == IF branch.isNone THEN <<"m", "a", "i", "n">> ELSE branch.text
        r == run_git_command(path, <<"push", remote, name>>, Res(rs, 1))
    IN  [ret |-> None,
         signals |->
             r.signals
             \o (IF r.ret.isNone THEN <<>>
                 ELSE <<Signal("output_ready",
                               <<"Pushed to ", remote, "/">> \o name)>>),
         procs |-> r.procs]

\* a push that gives up when the branch lookup reported an error
push_aborting(path, remote, branch, rs) ==
    LET b == BranchArg(path, branch, rs)
    IN  IF Blocked(b) \/ b.signals # <<>>
        THEN [ret |-> None, signals |-> b.signals, procs |-> b.procs]
        ELSE LET r == run_git_command(path, <<"push", remote, b.ret>>,
                                      Res(rs, Len(b.procs) + 1))
             IN  [ret |-> None,
                  signals |->
                      b.signals \o r.signals
                      \o (IF r.ret.isNone THEN <<>>
                          ELSE <<Signal("output_ready",
                                        <<"Pushed to ", remote, "/">>
                                        \o b.ret)>>),
                  procs |-> b.procs \o r.procs]

\* a push that refreshes the status after it worked, as pull does
push_refreshing(path, remote, branch, rs) ==
    LET b == BranchArg(path, branch, rs)
    IN  IF Blocked(b)
        THEN [ret |-> None, signals |-> b.signals, procs |-> b.procs]
        ELSE LET r == run_git_command(path, <<"push", remote, b.ret>>,
                                      Res(rs, Len(b.procs) + 1))
             IN  IF r.ret.isNone
                 THEN [ret |-> None, signals |-> b.signals \o r.signals,
                       procs |-> b.procs \o r.procs]
                 ELSE LET s == get_status(path, Res(rs, Len(b.procs) + 2))
                      IN  [ret |-> None,
                           signals |->
                               b.signals \o r.signals
                               \o <<Signal("output_ready",
                                           <<"Pushed to ", remote, "/">>
                                           \o b.ret)>>
                               \o s.signals,
                           procs |-> b.procs \o r.procs \o s.procs]

\* push(remote, branch)
push(path, remote, branch, rs) ==
    LET b == BranchArg(path, branch, rs)
    IN  IF Blocked(b)
        THEN [ret |-> None, signals |-> b.signals, procs |-> b.procs]
        ELSE LET r == run_git_command(path, <<"push", remote, b.ret>>,
                                      Res(rs, Len(b.procs) + 1))
             IN  [ret |-> None,
                  signals |->
                      b.signals \o r.signals
                      \o (IF r.ret.isNone THEN <<>>
                          ELSE <<Signal("output_ready",
                                        <<"Pushed to ", remote, "/">>
                                        \o b.ret)>>),
                  procs |-> b.procs \o r.procs]

\* pull(remote, branch)
pull(path, remote, branch, rs) ==
    LET b == BranchArg(path, branch, rs)
    IN  IF Blocked(b)
        THEN [ret |-> None, signals |-> b.signals, procs |-> b.procs]
        ELSE LET r == run_git_command(path, <<"pull", remote, b.ret>>,
                                      Res(rs, Len(b.procs) + 1))
             IN  IF r.ret.isNone
                 THEN [ret |-> None, signals |-> b.signals \o r.signals,
                       procs |-> b.procs \o r.procs]
                 ELSE LET s == get_status(path, Res(rs, Len(b.procs) + 2))
                      IN  [ret |-> None,
                           signals |->
                               b.signals \o r.signals
                               \o <<Signal("output_ready",
                                           <<"Pulled from ", remote, "/">>
                                           \o b.ret)>>
                               \o s.signals,
                           procs |-> b.procs \o r.procs \o s.procs]

\* a GitManager method called with args, after its commands ended as rs
Call(op, args, path, rs) ==
    CASE op = "get_status" -> get_status(path, Res(rs, 1))
      [] op = "get_branch" ->
             LET r == get_branch(path, Res(rs, 1))
             IN  [ret |-> Some(r.ret), signals |-> r.signals,
                  procs |-> r.procs]
      [] op = "get_diff" -> get_diff(path, args[1], Res(rs, 1))
      [] op = "get_log" -> get_log(path, args[1], Res(rs, 1))
      [] op = "add_files" -> add_files(path, args[1], rs)
      [] op = "commit" -> commit(path, args[1], rs)
      [] op = "push" -> push(path, args[1], args[2], rs)
      [] op = "pull" -> pull(path, args[1], args[2], rs)

\* the items update_git_status adds for a snapshot
StatusItems(status) ==
    [i \in 1..Len(status.modified) |-> <<"M  ">> \o status.modified[i]]
    \o [i \in 1..Len(status.added) |-> <<"A  ">> \o status.added[i]]
    \o [i \in 1..Len(status.deleted) |-> <<"D  ">> \o status.deleted[i]]
    \o [i \in 1..Len(status.untracked) |-> <<"?? ">> \o status.untracked[i]]

\* a slot that adds the items to the list without clearing it
update_git_status_append(list, status) == list \o StatusItems(status)

\* FullFeatureIDE.update_git_status(status), the slot of status_updated:
\* the list is cleared, then the items are added
update_git_status(list, status) == StatusItems(status)

\* the list after the slots of the signals have run, in order
RECURSIVE Shown(_, _)
Shown(list, signals) ==
    IF signals = <<>> THEN list
    ELSE Shown(IF Head(signals).sig = "status_updated"
               THEN update_git_status(list, Head(signals).arg)
               ELSE list,
               Tail(signals))

\* what the status command prints when the panel of the window is refreshed
RefreshOutputs ==
    { <<>>,
      StatusLine(<<"M", " ">>, <<"a", "b">>),
      StatusLine(<<"?", "?">>, <<"b">>) \o StatusLine(<<"A", " ">>, <<"a", "b">>) }

\* what a command can print when it exits 0, by its subcommand
CommandOutputs(sub) ==
    CASE sub = "status" -> RefreshOutputs
      [] sub = "branch" -> BranchOutputs
      [] sub = "diff" -> { <<>>, <<"-", "a", "\n", "+", "b", "\n">> }
      [] sub = "log" -> { <<>>, <<"1", "f", " ", "x", "\n">> }
      [] sub = "commit" -> { <<"[", "m", "]", "\n">> }
      [] sub = "pull" -> { <<"U", "p", "\n">> }
      [] OTHER -> { <<>> }

\* the arguments the operations are called with
DiffPaths == {NoFile, "a.py"}
LogCounts == {10, 5}
FilesArgs == {List(<<".">>), Str("a.py"), List(<<"a.py", "b.py">>)}
Messages == { <<"f", "i", "x">>, <<>> }
RemoteArgs ==
    { <<"origin", None>>, <<"upstream", Some(<<"d", "e", "v">>)>> }

IsOk(res) == res.kind = "exit" /\ res.rc = 0

\* a command of the call failed, or the call had no repository path
HadFailure(signals) ==
    \E i \in 1..Len(signals) : signals[i].sig = "error_occurred"

\* the branch of the push or pull command among procs, if there is one
BranchUsed(procs, before) ==
    LET at == {i \in 1..Len(procs) : procs[i].args[2] \in {"push", "pull"}}
    IN  IF at = {} THEN before
        ELSE Some(procs[CHOOSE i \in at : TRUE].args[4])

\* a commit-message input that is cleared only after a commit that worked
CommitInputKeptOnFailure(text, signals) ==
    IF HadFailure(signals) THEN text ELSE <<>>

\* FullFeatureIDE.git_commit after self.git_manager.commit(message) has
\* returned: self.git_commit_input.clear()
CommitInputAfter(text, signals) == <<>>

\* the commit-message input once the call that handler made has run as far
\* as r: a handler goes on when the method it called has returned
InputAfter(handler, text, r) ==
    IF handler = "git_commit" /\ ~Blocked(r)
    THEN CommitInputAfter(text, r.signals)
    ELSE text

\* a handler of the window ("" for any other caller) enters a method of the
\* window's GitManager; the slots connected to its signals run when they
\* are emitted
VcsCallFrom(handler, op, args) ==
    /\ program = "ide"
    /\ gitPc = "idle"
    /\ gitCaller' = handler
    /\ gitCall' = [op |-> op, args |-> args]
    /\ gitBefore' = [list |-> git_status_list,
                     failed |-> gitBefore.failed \/ HadFailure(gitSignals),
                     branch |-> BranchUsed(gitProc, gitBefore.branch)]
    /\ LET r == Call(op, args, repo_path, <<>>)
       IN  /\ gitProc' = r.procs
           /\ gitSignals' = r.signals
           /\ gitRet' = r.ret
           /\ gitPc' = IF Blocked(r) THEN "run" ELSE "idle"
           /\ git_status_list' = Shown(git_status_list, r.signals)
           /\ git_commit_input' = InputAfter(handler, git_commit_input, r)
    /\ UNCHANGED repo_path
    /\ UNCHANGED <<dbgVars, program, credVars, appVars, ideVars, promptVars, lastKey>>

\* a caller other than the window's handlers enters a method
VcsCall(op, args) == VcsCallFrom("", op, args) /\ UNCHANGED uiEvent

VcsGetStatus == VcsCall("get_status", <<>>)

VcsGetBranch == VcsCall("get_branch", <<>>)

GetDiff == \E filepath \in DiffPaths : VcsCall("get_diff", <<filepath>>)

GetLog == \E count \in LogCounts : VcsCall("get_log", <<count>>)

AddFiles == \E files \in FilesArgs : VcsCall("add_files", <<files>>)

Commit == \E message \in Messages : VcsCall("commit", <<message>>)

Push == \E a \in RemoteArgs : VcsCall("push", a)

Pull == \E a \in RemoteArgs : VcsCall("pull", a)

\* subprocess.run returns or raises, and the method goes on: to its end, or
\* to its next command
VcsProcEnd ==
    /\ program = "ide"
    /\ gitPc = "run"
    /\ \E res \in Results(CommandOutputs(gitProc[Len(gitProc)].args[2])) :
        LET rs == [i \in 1..Len(gitProc) |->
                      IF i = Len(gitProc) THEN res ELSE gitProc[i].res]
            r == Call(gitCall.op, gitCall.args, repo_path, rs)
        IN  /\ gitProc' = r.procs
            /\ gitSignals' = r.signals
            /\ gitRet' = r.ret
            /\ gitPc' = IF Blocked(r) THEN "run" ELSE "idle"
            /\ git_status_list' =
                   Shown(git_status_list,
                         SubSeq(r.signals, Len(gitSignals) + 1,
                                Len(r.signals)))
            /\ git_commit_input' = InputAfter(gitCaller, git_commit_input, r)
    /\ UNCHANGED <<repo_path, gitCall, gitBefore, gitCaller>>
    /\ UNCHANGED <<dbgVars, program, credVars, appVars, ideVars, uiEvent, promptVars,
                   lastKey>>

-----------------------------------------------------------------------------
(* Credentials *)

Providers == {"gemini", "openai", "anthropic", "deepseek", "perplexity"}

\* the providers FullFeatureIDE.open_settings has a field for
IdeProviders == {"gemini", "openai", "anthropic"}

\* key texts: one set in the environment, two typed into a settings dialog
NoKey == <<>>
EnvKey == <<"e", "1">>
TypedKey == <<"s", "1">>
RetypedKey == <<"s", "2">>

\* the environments a program is started in
Environments ==
    { [p \in Providers |-> NoKey],
      [p \in Providers |-> EnvKey] }

\* the providers whose field the user of the model edits in a dialog
EditedProviders == {"gemini", "deepseek"}

\* TunnerSuite.get_keys(): the settings value, and the environment variable
\* only when the settings value is empty
get_keys(environ, store) ==
    [p \in Providers |-> IF store[p] # NoKey THEN store[p] ELSE environ[p]]

\* ConfigManager.get_key(provider_type): the environment variable, and the
\* settings value only when the variable is unset or empty
get_key(environ, store, provider_type) ==
    IF environ[provider_type] # NoKey
    THEN environ[provider_type]
    ELSE store[provider_type]

\* TunnerSuite.open_settings(): the dialog shows the stored values; Save
\* writes every field as typed, Cancel writes nothing
AppSettingsOutcomes(store) ==
    {store} \cup
    {[store EXCEPT ![p] = v] :
        p \in EditedProviders, v \in {NoKey, TypedKey, RetypedKey}}

\* FullFeatureIDE.open_settings(): the dialog shows get_key of each provider;
\* Save writes every field that is not blank, stripped
IdeSaved(environ, store, p, typed) ==
    LET shown == [k \in IdeProviders |->
                     IF k = p THEN typed ELSE get_key(environ, store, k)]
    IN  [k \in IdeProviders |->
            IF Strip(shown[k]) # <<>> THEN Strip(shown[k]) ELSE store[k]]

IdeSettingsOutcomes(environ, store) ==
    {store} \cup
    {IdeSaved(environ, store, p, v) :
        p \in EditedProviders \cap IdeProviders,
        v \in {NoKey, TypedKey, TypedKey \o <<" ">>, RetypedKey}}

-----------------------------------------------------------------------------
(* Prompts.  A prompt is a sequence whose elements are the characters of  *)
(* the instruction and of the content, and the literal pieces of the      *)
(* f-string between them, each literal piece one element.                 *)

CodeLimit == 20000
EduLimit == 30000

\* AIWorker.run: full_prompt
AIPrompt(mode, instruction, content) ==
    IF mode = "code"
    THEN <<"You are an Expert Software Architect.", "\n\n", "Instruction: ">>
         \o instruction \o <<"\n\nCode Context:\n">>
         \o Take(content, CodeLimit)
    ELSE <<"You are an Expert Professor and Tutor.", "\n\n",
           "\n            Instruction: ">>
         \o instruction
         \o <<"\n\n            Source Material (Lecture/Notes):\n            ">>
         \o Take(content, EduLimit)
         \o <<"\n\n            Task: Explain clearly, summarize key points, or create a quiz as requested.\n            Output: Markdown formatted.\n            ">>

\* RefactorWorker.run: prompt (FENCE stands for the three backquotes of a
\* Markdown code fence)
RefactorPrompt(lang, code) ==
    <<"Refactor this ", lang, " code:\n\nFENCE", lang, "\n">>
    \o code
    \o <<"\nFENCE\n\nProvide:\n1. Summary\n2. Complete refactored code\n3. Key improvements">>

-----------------------------------------------------------------------------
(* Workers *)

MODELS_CONFIG ==
    [n \in {"Google: Gemini 2.5 Flash", "Google: Gemini 3 Pro",
            "OpenAI: GPT-5.1", "OpenAI: GPT-4o",
            "Anthropic: Claude 3.5 Sonnet", "DeepSeek: V3",
            "Perplexity: Sonar Large"} |->
        CASE n = "Google: Gemini 2.5 Flash" ->
                 [provider |-> "gemini", model_id |-> "gemini-2.5-flash"]
          [] n = "Google: Gemini 3 Pro" ->
                 [provider |-> "gemini", model_id |-> "gemini-3-pro-preview"]
          [] n = "OpenAI: GPT-5.1" ->
                 [provider |-> "openai", model_id |-> "gpt-5.1"]
          [] n = "OpenAI: GPT-4o" ->
                 [provider |-> "openai", model_id |-> "gpt-4o"]
          [] n = "Anthropic: Claude 3.5 Sonnet" ->
                 [provider |-> "anthropic",
                  model_id |-> "claude-3-5-sonnet-20241022"]
          [] n = "DeepSeek: V3" ->
                 [provider |-> "deepseek", model_id |-> "deepseek-chat"]
          [] n = "Perplexity: Sonar Large" ->
                 [provider |-> "perplexity", model_id |-> "sonar-reasoning-pro"]]

\* AIProviderFactory.MODELS
MODELS ==
    [n \in {"Gemini 2.0 Flash", "GPT-4o", "Claude 3.5 Sonnet"} |->
        CASE n = "Gemini 2.0 Flash" ->
                 [type |-> "gemini", model |-> "gemini-2.0-flash-exp"]
          [] n = "GPT-4o" -> [type |-> "openai", model |-> "gpt-4o"]
          [] n = "Claude 3.5 Sonnet" ->
                 [type |-> "anthropic", model |-> "claude-3-5-sonnet-latest"]]

\* AIWorker.run: base_urls
base_urls ==
    [p \in {"openai", "deepseek", "perplexity"} |->
        CASE p = "openai" -> "None"
          [] p = "deepseek" -> "https://api.deepseek.com"
          [] p = "perplexity" -> "https://api.perplexity.ai"]

\* one request to a provider (max_tokens 0, base_url "None": not passed)
Request(family, model, key, base_url, max_tokens, prompt) ==
    [family |-> family, model |-> model, key |-> key, base_url |-> base_url,
     max_tokens |-> max_tokens, prompt |-> prompt]

\* how a request can end: the provider's text, or an exception
Returned(text) == [kind |-> "return", text |-> text]
Thrown(msg) == [kind |-> "raise", text |-> msg]

Outcomes ==
    { Returned("# Result"), Returned(""),
      Thrown("401 Unauthorized"), Thrown("Connection error.") }

\* no request has ended yet
NoOutcome == [kind |-> "none", text |-> ""]

\* a worker thread.  pc: "create" (RefactorWorker.run before
\* AIProviderFactory.create), "call" (before the request), "done" (run has
\* emitted its signal).  requests: the requests it made; outcome: how the
\* request ended; pending: signals emitted and not yet handled by the
\* interactive thread; got: the signals its slots have handled.
Task(pc, mode, provider, model, key, instruction, content) ==
    [pc |-> pc, mode |-> mode, provider |-> provider, model |-> model,
     key |-> key, instruction |-> instruction, content |-> content,
     requests |-> <<>>, outcome |-> NoOutcome, pending |-> <<>>,
     got |-> <<>>]

\* a worker that is given the key of the provider call made last, if there
\* was one, instead of the key resolved for it
AIWorker_cached_key(mode, model_info, content, instruction, api_keys) ==
    Task("call", mode, model_info.provider, model_info.model_id,
         IF lastKey # NoKey THEN lastKey ELSE api_keys[model_info.provider],
         instruction, content)

\* AIWorker(mode, model_info, content, instruction, api_keys) after start()
AIWorker(mode, model_info, content, instruction, api_keys) ==
    Task("call", mode, model_info.provider, model_info.model_id,
         api_keys[model_info.provider], instruction, content)

\* RefactorWorker(model_name, code, lang) after start()
RefactorWorker(model_name, code, lang) ==
    Task("create", "refactor", "", model_name, NoKey, <<lang>>, code)

\* the request AIWorker.run makes, if the provider is one it knows
AIRequests(t) ==
    LET full_prompt == AIPrompt(t.mode, t.instruction, t.content)
    IN  IF t.provider = "gemini"
        THEN <<Request("generate_content", t.model, t.key, "None", 0,
                       full_prompt)>>
        ELSE IF t.provider \in {"openai", "deepseek", "perplexity"}
        THEN <<Request("chat.completions", t.model, t.key,
                       base_urls[t.provider], 0, full_prompt)>>
        ELSE IF t.provider = "anthropic"
        THEN <<Request("messages", t.model, t.key, "None", 4096,
                       full_prompt)>>
        ELSE <<>>

\* an except clause that swallows the exception instead of emitting it
EmittedUnlessThrown(requests, outcome) ==
    IF requests = <<>> THEN <<Signal("finished", "")>>
    ELSE IF outcome.kind = "return"
    THEN <<Signal("finished", outcome.text)>>
    ELSE <<>>

\* a worker that reports a placeholder when the provider's text is empty
EmittedNonEmpty(requests, outcome) ==
    IF requests = <<>> THEN <<Signal("finished", "")>>
    ELSE IF outcome.kind = "return"
    THEN <<Signal("finished",
                  IF outcome.text = "" THEN "No response" ELSE outcome.text)>>
    ELSE <<Signal("error", outcome.text)>>

\* the signal the try block of a worker's run ends with
Emitted(requests, outcome) ==
    IF requests = <<>> THEN <<Signal("finished", "")>>
    ELSE IF outcome.kind = "return"
    THEN <<Signal("finished", outcome.text)>>
    ELSE <<Signal("error", outcome.text)>>

\* AIWorker.run when its request ends as outcome
AIWorkerRun(t, outcome) ==
    LET reqs == AIRequests(t)
    IN  [t EXCEPT !.pc = "done", !.requests = reqs,
                  !.outcome = IF reqs = <<>> THEN NoOutcome ELSE outcome,
                  !.pending = Emitted(reqs, outcome)]

MissingKeyMessage(type) ==
    CASE type = "gemini" -> "Missing API Key for gemini"
      [] type = "openai" -> "Missing API Key for openai"
      [] type = "anthropic" -> "Missing API Key for anthropic"

\* AIProviderFactory.create(config_name): the backend's type and key, or
\* the ValueError raised
AIProviderFactory_create(config_name, environ, store) ==
    IF config_name \notin DOMAIN MODELS
    THEN [ok |-> FALSE, type |-> "", key |-> NoKey,
          error |-> "Model Not Found"]
    ELSE LET p_type == MODELS[config_name].type
             api_key == get_key(environ, store, p_type)
         IN  IF api_key = NoKey
             THEN [ok |-> FALSE, type |-> p_type, key |-> NoKey,
                   error |-> MissingKeyMessage(p_type)]
             ELSE [ok |-> TRUE, type |-> p_type, key |-> api_key,
                   error |-> ""]

\* RefactorWorker.run up to its request: the backend is created, or the
\* ValueError is caught and emitted
RefactorWorkerCreate(t, environ, store) ==
    LET backend == AIProviderFactory_create(t.model, environ, store)
    IN  IF backend.ok
        THEN [t EXCEPT !.pc = "call", !.provider = backend.type,
                       !.key = backend.key]
        ELSE [t EXCEPT !.pc = "done", !.provider = backend.type,
                       !.pending = <<Signal("error", backend.error)>>]

\* the request RefactorWorker.run makes
RefactorRequests(t) ==
    LET prompt == RefactorPrompt(t.instruction[1], t.content)
        conf == MODELS[t.model]
    IN  IF conf.type = "gemini"
        THEN <<Request("generate_content", conf.model, t.key, "None", 0,
                       prompt)>>
        ELSE IF conf.type = "openai"
        THEN <<Request("chat.completions", conf.model, t.key, "None", 0,
                       prompt)>>
        ELSE IF conf.type = "anthropic"
        THEN <<Request("messages", conf.model, t.key, "None", 8192, prompt)>>
        ELSE <<>>

\* RefactorWorker.run from its request on; a type that no branch names
\* emits nothing
RefactorWorkerRun(t, outcome) ==
    LET reqs == RefactorRequests(t)
    IN  [t EXCEPT !.pc = "done", !.requests = reqs,
                  !.outcome = IF reqs = <<>> THEN NoOutcome ELSE outcome,
                  !.pending = IF reqs = <<>> THEN <<>>
                              ELSE Emitted(reqs, outcome)]

\* the key of the provider call made last, after a worker made requests
KeyCalled(requests, before) ==
    IF requests = <<>> THEN before ELSE requests[Len(requests)].key

\* a worker whose run has not emitted yet
IsRunning(t) == t.pc \in {"create", "call"}

\* a worker that has ended and whose signal has been handled
Consumed(t) == t.pc = "done" /\ t.pending = <<>>

\* `self.worker = ...` drops the window's reference to the worker before:
\* the model forgets the workers that have ended and been handled
Live(tasks) == SelectSeq(tasks, LAMBDA t : ~Consumed(t))

-----------------------------------------------------------------------------
(* The interactive thread of each program *)

\* what the user has typed or opened: the text of the code editor (any
\* text), of the document viewer (empty or a loaded document)
EditorTexts ==
    { <<>>, <<" ", "\n">>, <<"x", "y">>, <<" ", "x", " ">> }
ViewerTexts ==
    { <<>>, <<"-", "-", "-", " ", "D", "\n", "x">> }
Instructions == { <<"f", "i", "x">> }
Languages == {"Python"}

Event(h, content, model, cred) ==
    [h |-> h, content |-> content, model |-> model, cred |-> cred]
Handled(h) == Event(h, <<>>, "", NoKey)

\* the check without the strip: only the empty text counts as no content
AppNoContentUnstripped(content) == content = <<>>

\* TunnerSuite.run_ai: `if not content.strip()`
AppNoContent(content) == Strip(content) = <<>>

\* TunnerSuite.run_ai: self.btn_run.setEnabled(False)
AppBtnWhileWorking == FALSE

\* TunnerSuite: the button after the slot connected to a worker signal ran:
\* on_ai_finished enables it, the lambda connected to error shows a box
AppBtnAfter(sig, enabled) == IF sig = "finished" THEN TRUE ELSE enabled

\* TunnerSuite.switch_mode
SwitchMode ==
    /\ program = "app"
    /\ \E mode \in {"code", "edu"} :
        /\ current_mode' = mode
        /\ uiEvent' = Handled("switch_mode")
    /\ UNCHANGED <<dbgVars, program, credVars, btn_run, appTasks, ideVars, promptVars,
                   gitVars, lastKey>>

\* TunnerSuite.run_ai, run by a click on the enabled btn_run.  (MaxTasks
\* keeps the set of threads finite; as long as the button is disabled while
\* a worker runs, no thread is left when the handler is entered.)
RunAi ==
    /\ program = "app"
    /\ btn_run
    /\ \E content \in (IF current_mode = "code" THEN EditorTexts
                                              ELSE ViewerTexts),
          model \in DOMAIN MODELS_CONFIG,
          instruction \in Instructions :
        LET model_info == MODELS_CONFIG[model]
            keys == get_keys(env, appStore)
        IN  /\ uiEvent' = Event("run_ai", content, model,
                                keys[model_info.provider])
            /\ IF AppNoContent(content)
               THEN UNCHANGED <<appStore, btn_run, appTasks>>
               ELSE IF keys[model_info.provider] = NoKey
               THEN /\ appStore' \in AppSettingsOutcomes(appStore)
                    /\ UNCHANGED <<btn_run, appTasks>>
               ELSE /\ Len(Live(appTasks)) < MaxTasks
                    /\ btn_run' = AppBtnWhileWorking
                    /\ appTasks' =
                         Append(Live(appTasks),
                                AIWorker(current_mode, model_info, content,
                                         instruction, keys))
                    /\ UNCHANGED appStore
    /\ UNCHANGED <<dbgVars, program, env, ideStore, current_mode, ideVars, promptVars,
                   gitVars, lastKey>>

\* the "Keys" button: TunnerSuite.open_settings
AppOpenSettings ==
    /\ program = "app"
    /\ appStore' \in AppSettingsOutcomes(appStore)
    /\ uiEvent' = Handled("open_settings")
    /\ UNCHANGED <<dbgVars, program, env, ideStore, appVars, ideVars, promptVars,
                   gitVars, lastKey>>

\* the thread of an AIWorker: run()
AppWorkerRun ==
    /\ program = "app"
    /\ \E i \in 1..Len(appTasks), outcome \in Outcomes :
        /\ appTasks[i].pc = "call"
        /\ appTasks' = [appTasks EXCEPT ![i] = AIWorkerRun(@, outcome)]
        /\ lastKey' = KeyCalled(AIRequests(appTasks[i]), lastKey)
    /\ UNCHANGED <<dbgVars, program, credVars, current_mode, btn_run, ideVars,
                   uiEvent, promptVars, gitVars>>

\* the interactive thread runs the slot of a signal a worker emitted:
\* on_ai_finished, or the lambda connected to error
AppDeliver ==
    /\ program = "app"
    /\ \E i \in 1..Len(appTasks) :
        /\ appTasks[i].pending # <<>>
        /\ LET n == Head(appTasks[i].pending)
           IN  /\ appTasks' = [appTasks EXCEPT ![i].pending = Tail(@),
                                               ![i].got = Append(@, n)]
               /\ btn_run' = AppBtnAfter(n.sig, btn_run)
               /\ uiEvent' = Handled(IF n.sig = "finished"
                                     THEN "on_ai_finished"
                                     ELSE "error_lambda")
    /\ UNCHANGED <<dbgVars, program, credVars, current_mode, ideVars, promptVars,
                   gitVars, lastKey>>

\* FullFeatureIDE.refactor_code: `code = ...strip()`, `if not code`
IdeNoCode(code) == code = <<>>

\* the button left enabled while the worker runs
IdeBtnLeftEnabled == TRUE

\* FullFeatureIDE.refactor_code: self.btn_refactor.setEnabled(False)
IdeBtnWhileWorking == FALSE

\* FullFeatureIDE: the button after on_refactor_success or on_refactor_error
IdeBtnAfter(sig, enabled) == TRUE

\* FullFeatureIDE.refactor_code, run by a click on the enabled btn_refactor
RefactorCode ==
    /\ program = "ide"
    /\ btn_refactor
    /\ \E text \in EditorTexts, model \in DOMAIN MODELS, lang \in Languages :
        LET code == Strip(text)
        IN  /\ uiEvent' = Event("refactor_code", text, model,
                                get_key(env, ideStore, MODELS[model].type))
            /\ IF IdeNoCode(code)
               THEN UNCHANGED <<btn_refactor, ideTasks>>
               ELSE /\ Len(Live(ideTasks)) < MaxTasks
                    /\ btn_refactor' = IdeBtnWhileWorking
                    /\ ideTasks' = Append(Live(ideTasks),
                                          RefactorWorker(model, code, lang))
    /\ UNCHANGED <<dbgVars, program, credVars, appVars, promptVars, gitVars, lastKey>>

\* the settings button: FullFeatureIDE.open_settings
IdeOpenSettings ==
    /\ program = "ide"
    /\ ideStore' \in IdeSettingsOutcomes(env, ideStore)
    /\ uiEvent' = Handled("open_settings")
    /\ UNCHANGED <<dbgVars, program, env, appStore, appVars, ideVars, promptVars,
                   gitVars, lastKey>>

\* the thread of a RefactorWorker: run() up to its request
IdeWorkerCreate ==
    /\ program = "ide"
    /\ \E i \in 1..Len(ideTasks) :
        /\ ideTasks[i].pc = "create"
        /\ ideTasks' = [ideTasks EXCEPT
                           ![i] = RefactorWorkerCreate(@, env, ideStore)]
    /\ UNCHANGED <<dbgVars, program, credVars, appVars, btn_refactor, uiEvent,
                   promptVars, gitVars, lastKey>>

\* the thread of a RefactorWorker: the request and the signal
IdeWorkerRun ==
    /\ program = "ide"
    /\ \E i \in 1..Len(ideTasks), outcome \in Outcomes :
        /\ ideTasks[i].pc = "call"
        /\ ideTasks' = [ideTasks EXCEPT ![i] = RefactorWorkerRun(@, outcome)]
        /\ lastKey' = KeyCalled(RefactorRequests(ideTasks[i]), lastKey)
    /\ UNCHANGED <<dbgVars, program, credVars, appVars, btn_refactor, uiEvent,
                   promptVars, gitVars>>

\* the interactive thread runs on_refactor_success or on_refactor_error
IdeDeliver ==
    /\ program = "ide"
    /\ \E i \in 1..Len(ideTasks) :
        /\ ideTasks[i].pending # <<>>
        /\ LET n == Head(ideTasks[i].pending)
           IN  /\ ideTasks' = [ideTasks EXCEPT ![i].pending = Tail(@),
                                               ![i].got = Append(@, n)]
               /\ btn_refactor' = IdeBtnAfter(n.sig, btn_refactor)
               /\ uiEvent' = Handled(IF n.sig = "finished"
                                     THEN "on_refactor_success"
                                     ELSE "on_refactor_error")
    /\ UNCHANGED <<dbgVars, program, credVars, appVars, promptVars, gitVars, lastKey>>

\* what the user types into the commit-message input
CommitInputs ==
    { <<>>, <<" ">>, <<" ", "f", "i", "x", " ">>, <<"f", "i", "x">> }

\* the user edits the commit-message input
EditCommitMessage ==
    /\ program = "ide"
    /\ gitPc = "idle"
    /\ \E text \in CommitInputs : git_commit_input' = text
    /\ uiEvent' = Handled("git_commit_input")
    /\ UNCHANGED <<repo_path, gitPc, gitCall, gitProc, gitSignals, gitRet,
                   git_status_list, gitBefore, gitCaller>>
    /\ UNCHANGED <<dbgVars, program, credVars, appVars, ideVars, promptVars, lastKey>>

\* a commit message taken from the input as it is
CommitMessageRaw(text) == text

\* FullFeatureIDE.git_commit: message = self.git_commit_input.text().strip()
CommitMessage(text) == Strip(text)

\* FullFeatureIDE.git_commit: `if not message`, the warning and the return;
\* else commit(message), and the input is cleared when it has returned
GitCommit ==
    LET message == CommitMessage(git_commit_input)
    IN  /\ program = "ide"
        /\ gitPc = "idle"
        /\ uiEvent' = Event("git_commit", git_commit_input, "", NoKey)
        /\ IF message = <<>>
           THEN /\ UNCHANGED gitVars
                /\ UNCHANGED <<dbgVars, program, credVars, appVars, ideVars,
                               promptVars, lastKey>>
           ELSE VcsCallFrom("git_commit", "commit", <<message>>)

\* FullFeatureIDE.git_add_all
GitAddAll ==
    /\ VcsCallFrom("git_add_all", "add_files", <<List(<<".">>)>>)
    /\ uiEvent' = Handled("git_add_all")

\* FullFeatureIDE.git_push: push() with its defaults
GitPush ==
    /\ VcsCallFrom("git_push", "push", <<"origin", None>>)
    /\ uiEvent' = Handled("git_push")

\* FullFeatureIDE.git_pull: pull() with its defaults
GitPull ==
    /\ VcsCallFrom("git_pull", "pull", <<"origin", None>>)
    /\ uiEvent' = Handled("git_pull")

-----------------------------------------------------------------------------
(* PythonDebugger: breakpoints, and the child processes that run_code and  *)
(* debug_code start.  A text is a sequence of characters; the line that    *)
(* debug_code inserts is one piece.                                        *)

\* the line debug_code inserts at a breakpoint
PdbLine == <<"import pdb; pdb.set_trace()">>

\* '\n'.join(lines)
RECURSIVE JoinLines(_)
JoinLines(lines) ==
    IF lines = <<>> THEN <<>>
    ELSE IF Len(lines) = 1 THEN lines[1]
    ELSE lines[1] \o <<"\n">> \o JoinLines(Tail(lines))

\* lines.insert(bp - 1, x)
InsertAt(lines, bp, x) ==
    SubSeq(lines, 1, bp - 1) \o <<x>> \o SubSeq(lines, bp, Len(lines))

Max(S) == CHOOSE x \in S : \A y \in S : y <= x

\* `for bp in sorted(self.breakpoints, reverse=True)`: the breakpoints from
\* the highest down, each tested against the lines as they are by then
RECURSIVE InsertBreakpoints(_, _)
InsertBreakpoints(lines, bps) ==
    IF bps = {} THEN lines
    ELSE LET bp == Max(bps)
         IN  InsertBreakpoints(IF 0 < bp /\ bp <= Len(lines)
                               THEN InsertAt(lines, bp, PdbLine)
                               ELSE lines,
                               bps \ {bp})

\* code_with_bp of debug_code
CodeWithBp(code, bps) == JoinLines(InsertBreakpoints(SplitLines(code), bps))

\* no file path: filepath=None
NoFilePath == <<>>

\* the path of the file the editor has open (self.current_file)
CurrentFile == <<"f.py">>

\* the name of the n-th temporary file
TempFile(n) == <<"tmp", n>>

\* the texts run_code and debug_code are called with, and what the file
\* at CurrentFile can hold (neither method writes to a file it is given)
DebugCodes == { <<"a">>, <<"a", "\n", "b">>, <<"a", "\n">> }
DiskTexts == DebugCodes

\* the lines a breakpoint is set at
BpLines == 0..MaxBp

\* a child process: the file python3 was started on and QProcess.state()
Child(file, state) == [file |-> file, state |-> state]

DebugCall(op, code, filepath) == [op |-> op, code |-> code, filepath |-> filepath]

\* `self.process = QProcess()`: the QProcess that self.process named before
\* is released; it has no parent and no other reference, so it is destroyed,
\* and the destructor of a QProcess kills its child
Released(cs, p) ==
    IF p = 0 THEN cs ELSE [cs EXCEPT ![p].state = "NotRunning"]

\* PythonDebugger.__init__
DebuggerInit ==
    /\ breakpoints = {}
    /\ process = 0
    /\ children = <<>>
    /\ dbgCall = DebugCall("__init__", <<>>, NoFilePath)
    /\ dbgRan = <<>>
    /\ dbgSignals = <<>>

\* add_breakpoint(line)
AddBreakpoint ==
    /\ program = "ide"
    /\ \E line \in BpLines :
        /\ breakpoints' = breakpoints \cup {line}
        /\ dbgSignals' = <<Signal("output_ready",
                                  <<"Breakpoint added at line ", line>>)>>
    /\ dbgCall' = DebugCall("add_breakpoint", <<>>, NoFilePath)
    /\ UNCHANGED <<process, children, dbgRan>>
    /\ UNCHANGED <<program, credVars, appVars, ideVars, uiEvent, promptVars,
                   gitVars, lastKey>>

\* remove_breakpoint(line)
RemoveBreakpoint ==
    /\ program = "ide"
    /\ \E line \in BpLines :
        /\ breakpoints' = breakpoints \ {line}
        /\ dbgSignals' = <<Signal("output_ready",
                                  <<"Breakpoint removed from line ", line>>)>>
    /\ dbgCall' = DebugCall("remove_breakpoint", <<>>, NoFilePath)
    /\ UNCHANGED <<process, children, dbgRan>>
    /\ UNCHANGED <<program, credVars, appVars, ideVars, uiEvent, promptVars,
                   gitVars, lastKey>>

\* clear_breakpoints()
ClearBreakpoints ==
    /\ program = "ide"
    /\ breakpoints' = {}
    /\ dbgSignals' = <<Signal("output_ready", <<"All breakpoints cleared">>)>>
    /\ dbgCall' = DebugCall("clear_breakpoints", <<>>, NoFilePath)
    /\ UNCHANGED <<process, children, dbgRan>>
    /\ UNCHANGED <<program, credVars, appVars, ideVars, uiEvent, promptVars,
                   gitVars, lastKey>>

\* run_code(code, filepath) when the temporary file it may need can be
\* written (written) or not, and the file at a given path holds onDisk:
\* the children and self.process after it, the text of the file python3 is
\* started on, and the signals
run_code(code, filepath, written, onDisk, cs, p) ==
    IF filepath = NoFilePath /\ ~written
    THEN [children |-> cs, process |-> p, ran |-> <<>>,
          signals |-> <<Signal("error_occurred",
                               <<"Failed to run code: ", "OSError">>)>>]
    ELSE LET file == IF filepath = NoFilePath THEN TempFile(Len(cs) + 1)
                                              ELSE filepath
         IN  [children |-> Append(Released(cs, p), Child(file, "Starting")),
              process |-> Len(cs) + 1,
              ran |-> IF filepath = NoFilePath THEN code ELSE onDisk,
              signals |-> <<Signal("output_ready",
                                   <<"Running ", file, "...">>)>>]

\* debug_code(code, filepath) with the breakpoints bps
debug_code(code, filepath, bps, written, onDisk, cs, p) ==
    LET code_with_bp == CodeWithBp(code, bps)
    IN  IF filepath = NoFilePath /\ ~written
        THEN [children |-> cs, process |-> p, ran |-> <<>>,
              signals |-> <<Signal("error_occurred",
                                   <<"Failed to debug: ", "OSError">>)>>]
        ELSE LET file == IF filepath = NoFilePath
                         THEN TempFile(Len(cs) + 1) ELSE filepath
                 r == run_code(code_with_bp, file, TRUE,
                               IF filepath = NoFilePath THEN code_with_bp
                                                        ELSE onDisk,
                               cs, p)
             IN  [r EXCEPT !.signals =
                      <<Signal("output_ready",
                               <<"Debugging ", file, "...">>)>> \o @]

\* a caller enters run_code
RunCode ==
    /\ program = "ide"
    /\ Len(children) < MaxRuns
    /\ \E code \in DebugCodes, filepath \in {NoFilePath, CurrentFile},
          written \in BOOLEAN, onDisk \in DiskTexts :
        LET r == run_code(code, filepath, written, onDisk, children, process)
        IN  /\ children' = r.children
            /\ process' = r.process
            /\ dbgRan' = r.ran
            /\ dbgSignals' = r.signals
            /\ dbgCall' = DebugCall("run_code", code, filepath)
    /\ UNCHANGED breakpoints
    /\ UNCHANGED <<program, credVars, appVars, ideVars, uiEvent, promptVars,
                   gitVars, lastKey>>

\* a caller enters debug_code
DebugCode ==
    /\ program = "ide"
    /\ Len(children) < MaxRuns
    /\ \E code \in DebugCodes, filepath \in {NoFilePath, CurrentFile},
          written \in BOOLEAN, onDisk \in DiskTexts :
        LET r == debug_code(code, filepath, breakpoints, written, onDisk,
                            children, process)
        IN  /\ children' = r.children
            /\ process' = r.process
            /\ dbgRan' = r.ran
            /\ dbgSignals' = r.signals
            /\ dbgCall' = DebugCall("debug_code", code, filepath)
    /\ UNCHANGED breakpoints
    /\ UNCHANGED <<program, credVars, appVars, ideVars, uiEvent, promptVars,
                   gitVars, lastKey>>

\* stop(): `if self.process and self.process.state() == Running`
stop(cs, p) ==
    IF p # 0 /\ cs[p].state = "Running"
    THEN [children |-> [cs EXCEPT ![p].state = "NotRunning"],
          signals |-> <<Signal("output_ready", <<"Execution stopped">>)>>]
    ELSE [children |-> cs, signals |-> <<>>]

\* a caller enters stop, as FullFeatureIDE.stop_execution does
Stop ==
    /\ program = "ide"
    /\ LET r == stop(children, process)
       IN  /\ children' = r.children
           /\ dbgSignals' = r.signals
    /\ dbgCall' = DebugCall("stop", <<>>, NoFilePath)
    /\ UNCHANGED <<breakpoints, process, dbgRan>>
    /\ UNCHANGED <<program, credVars, appVars, ideVars, uiEvent, promptVars,
                   gitVars, lastKey>>

\* the event loop learns that the child of self.process has started, or
\* that it could not be started (errorOccurred has no slot)
ProcStarted ==
    /\ program = "ide"
    /\ process # 0
    /\ children[process].state = "Starting"
    /\ \E state \in {"Running", "NotRunning"} :
        children' = [children EXCEPT ![process].state = state]
    /\ UNCHANGED <<breakpoints, process, dbgCall, dbgRan, dbgSignals>>
    /\ UNCHANGED <<program, credVars, appVars, ideVars, uiEvent, promptVars,
                   gitVars, lastKey>>

\* the child of self.process prints: _handle_stdout, _handle_stderr
ProcOutput ==
    /\ program = "ide"
    /\ process # 0
    /\ children[process].state = "Running"
    /\ \E sig \in {"output_ready", "error_occurred"} :
        dbgSignals' = <<Signal(sig, <<"data">>)>>
    /\ UNCHANGED <<breakpoints, process, children, dbgCall, dbgRan>>
    /\ UNCHANGED <<program, credVars, appVars, ideVars, uiEvent, promptVars,
                   gitVars, lastKey>>

\* the child of self.process ends by itself: _handle_finished
ProcFinished ==
    /\ program = "ide"
    /\ process # 0
    /\ children[process].state = "Running"
    /\ children' = [children EXCEPT ![process].state = "NotRunning"]
    /\ \E exit_code \in {0, 1} :
        dbgSignals' =
            IF exit_code = 0
            THEN <<Signal("output_ready",
                          <<"\n", "Execution completed successfully">>)>>
            ELSE <<Signal("error_occurred",
                          <<"\n", "Execution failed with code ", exit_code>>)>>
    /\ UNCHANGED <<breakpoints, process, dbgCall, dbgRan>>
    /\ UNCHANGED <<program, credVars, appVars, ideVars, uiEvent, promptVars,
                   gitVars, lastKey>>

-----------------------------------------------------------------------------
(* A worker's prompt construction on its own, on contents around the      *)
(* truncation limits                                                      *)

\* a content of n characters: p, q, r, p, q, r, ... or p, q, p, q, ...
Pattern(n, k) == [i \in 1..n |-> <<"p", "q", "r">>[(i % k) + 1]]

ContentLengths ==
    (0..ShortLen)
    \cup ((CodeLimit - LongBy)..(CodeLimit + LongBy))
    \cup ((EduLimit - LongBy)..(EduLimit + LongBy))

Contents == {Pattern(n, k) : n \in ContentLengths, k \in {2, 3}}

\* a worker of either window, constructed with such a content, before its
\* request
PromptInit ==
    /\ program = "prompt"
    /\ \E content \in Contents, instruction \in Instructions :
        \/ \E mode \in {"code", "edu"}, model \in DOMAIN MODELS_CONFIG :
              promptIn = AIWorker(mode, MODELS_CONFIG[model], content,
                                  instruction,
                                  [p \in Providers |-> TypedKey])
        \/ \E model \in DOMAIN MODELS, lang \in Languages :
              promptIn = RefactorWorkerCreate(
                             RefactorWorker(model, Strip(content), lang),
                             [p \in Providers |-> NoKey],
                             [p \in IdeProviders |-> TypedKey])
    /\ promptOut = <<>>

\* AIWorker.run builds its request
BuildAIPrompt ==
    /\ program = "prompt"
    /\ promptIn.mode \in {"code", "edu"}
    /\ promptOut = <<>>
    /\ promptOut' = AIRequests(promptIn)
    /\ UNCHANGED <<dbgVars, program, credVars, appVars, ideVars, uiEvent, promptIn,
                   gitVars, lastKey>>

\* RefactorWorker.run builds its request
BuildRefactorPrompt ==
    /\ program = "prompt"
    /\ promptIn.mode = "refactor"
    /\ promptOut = <<>>
    /\ promptOut' = RefactorRequests(promptIn)
    /\ UNCHANGED <<dbgVars, program, credVars, appVars, ideVars, uiEvent, promptIn,
                   gitVars, lastKey>>

-----------------------------------------------------------------------------
(* Specifications *)

\* the state of the parts a specification leaves alone
CredIdle ==
    /\ env = [p \in Providers |-> NoKey]
    /\ appStore = [p \in Providers |-> NoKey]
    /\ ideStore = [p \in IdeProviders |-> NoKey]

\* TunnerSuite.__init__ and FullFeatureIDE.__init__: no worker yet
WindowInit ==
    /\ current_mode = "code"
    /\ btn_run = TRUE
    /\ btn_refactor = TRUE
    /\ appTasks = <<>>
    /\ ideTasks = <<>>
    /\ uiEvent = Handled("__init__")
    /\ lastKey = NoKey
    /\ DebuggerInit

PromptIdle ==
    /\ promptIn = Task("done", "", "", "", NoKey, <<>>, <<>>)
    /\ promptOut = <<>>

GitNext == SetRepoPath \/ GetStatus \/ GetBranch \/ ProcEnd

\* a GitManager on its own: set_repo_path, get_status and get_branch
GitSpecInit ==
    program = "git" /\ CredIdle /\ WindowInit /\ PromptIdle /\ GitInit

SpecGit == GitSpecInit /\ [][GitNext]_vars

VcsNext ==
    \/ SetRepoPath \/ VcsGetStatus \/ VcsGetBranch \/ GetDiff \/ GetLog
    \/ AddFiles \/ Commit \/ Push \/ Pull \/ VcsProcEnd

\* the GitManager of a FullFeatureIDE window, with the window's slots
VcsInit ==
    program = "ide" /\ CredIdle /\ WindowInit /\ PromptIdle /\ GitInit

SpecVcs == VcsInit /\ [][VcsNext]_vars

\* the git panel of a FullFeatureIDE window: its handlers, and commit called
\* by another caller
PanelNext ==
    \/ SetRepoPath \/ EditCommitMessage \/ GitCommit \/ GitAddAll
    \/ GitPush \/ GitPull \/ Commit \/ VcsProcEnd

SpecPanel == VcsInit /\ [][PanelNext]_vars

DebugNext ==
    \/ AddBreakpoint \/ RemoveBreakpoint \/ ClearBreakpoints \/ RunCode
    \/ DebugCode \/ Stop \/ ProcStarted \/ ProcOutput \/ ProcFinished

\* the PythonDebugger of a FullFeatureIDE window and its child processes
SpecDebug == VcsInit /\ [][DebugNext]_vars

\* either program is started, in some environment and with some keys saved
DispatchInit ==
    /\ program \in {"app", "ide"}
    /\ env \in Environments
    /\ appStore = [p \in Providers |-> NoKey]
    /\ ideStore = [p \in IdeProviders |-> NoKey]
    /\ WindowInit /\ PromptIdle /\ GitInit

DispatchNext ==
    \/ SwitchMode \/ RunAi \/ AppOpenSettings \/ AppWorkerRun \/ AppDeliver
    \/ RefactorCode \/ IdeOpenSettings \/ IdeWorkerCreate \/ IdeWorkerRun
    \/ IdeDeliver

\* the two task dispatchers: TunnerSuite with AIWorker, FullFeatureIDE with
\* RefactorWorker
SpecDispatch == DispatchInit /\ [][DispatchNext]_vars

CoreNext ==
    \/ SwitchMode \/ RunAi \/ AppOpenSettings \/ AppWorkerRun \/ AppDeliver
    \/ VcsNext

\* the task dispatcher of Tunner Suite, or the version-control engine of
\* GenAI Studio
SpecCore == DispatchInit /\ [][CoreNext]_vars

PromptNext == BuildAIPrompt \/ BuildRefactorPrompt

\* the prompt construction of the workers
PromptSpecInit == CredIdle /\ WindowInit /\ GitInit /\ PromptInit

SpecPrompt == PromptSpecInit /\ [][PromptNext]_vars

-----------------------------------------------------------------------------
(* The claims about get_status and get_branch *)

\* a get_status or get_branch call has returned and its command exited 0
GitDone(op) ==
    /\ gitPc = "idle"
    /\ gitCall.op = op
    /\ gitProc # <<>>
    /\ gitProc[1].res.kind = "exit"
    /\ gitProc[1].res.rc = 0

\* the text the command of the last call printed
GitOut == gitProc[1].res.out

Text_a_txt == <<"a", ".", "t", "x", "t">>
Text_b_txt == <<"b", ".", "t", "x", "t">>
Text_c_txt == <<"c", ".", "t", "x", "t">>
Text_d_txt == <<"d", ".", "t", "x", "t">>

ScenarioStatus ==
    [modified |-> <<Text_a_txt>>, added |-> <<Text_c_txt>>,
     deleted |-> <<Text_d_txt>>, untracked |-> <<Text_b_txt>>]

\* C1: get_status on the output " M a.txt", "?? b.txt", "A  c.txt",
\* "D  d.txt" returns and emits modified=[a.txt], untracked=[b.txt],
\* added=[c.txt], deleted=[d.txt].
C1_Scenario ==
    (GitDone("get_status") /\ GitOut = ScenarioOutput)
        => /\ gitRet = Dict(ScenarioStatus)
           /\ gitSignals = <<Signal("status_updated", ScenarioStatus)>>

\* the lines git printed: every line of the output ends with a newline
PrintedLines(output) ==
    LET pieces == SplitLines(output)
    IN  SubSeq(pieces, 1, Len(pieces) - 1)

Buckets == {"modified", "added", "deleted", "untracked"}

\* the table of section 4.4: the bucket of a code, "none" for any other code
Table(code) ==
    IF code = <<" ", "M">> \/ code = <<"M", " ">> THEN "modified"
    ELSE IF code = <<"A", " ">> THEN "added"
    ELSE IF code = <<"D", " ">> THEN "deleted"
    ELSE IF code = <<"?", "?">> THEN "untracked"
    ELSE "none"

Count(x, s) == Cardinality({i \in 1..Len(s) : s[i] = x})

\* the paths a snapshot holds in any bucket
SnapshotPaths(st) == UNION {Range(st[b]) : b \in Buckets}

\* C2: every printed line with a code of the table puts its path, unaltered,
\* in the bucket the table gives and in no other; a line with any other code
\* puts nothing in any bucket and raises no error notification.
C2_TablePerLine ==
    GitDone("get_status") =>
        LET lines == PrintedLines(GitOut)
            paths == {Drop(lines[i], 3) : i \in 1..Len(lines)}
        IN  /\ \A b \in Buckets : \A p \in paths \cup SnapshotPaths(gitRet.status) :
                   Count(p, gitRet.status[b])
                     = Cardinality({i \in 1..Len(lines) :
                                      /\ Table(Take(lines[i], 2)) = b
                                      /\ Drop(lines[i], 3) = p})
            /\ \A i \in 1..Len(gitSignals) : gitSignals[i].sig # "error_occurred"

\* C3: when every path is printed on at most one line, no path is in two of
\* the four sets of the snapshot.
C3_DisjointBuckets ==
    (GitDone("get_status")
       /\ LET lines == PrintedLines(GitOut)
          IN  \A i, j \in 1..Len(lines) :
                  i # j => Drop(lines[i], 3) # Drop(lines[j], 3))
        => \A b1, b2 \in Buckets :
               b1 # b2 => Range(gitRet.status[b1]) \cap Range(gitRet.status[b2]) = {}

\* C4: get_branch returns "unknown" exactly when the branch command printed
\* nothing, and never returns the empty text.
C4_UnknownIffEmpty ==
    (gitPc = "idle" /\ gitCall.op = "get_branch" /\ gitProc # <<>>)
        => /\ (gitRet.text = Unknown) <=> (gitProc[1].res.out = <<>>)
           /\ gitRet.text # <<>>

-----------------------------------------------------------------------------
(* The claims about the operations of the window's GitManager *)

\* a method of the window's GitManager has been called and has returned
VcsDone ==
    /\ program = "ide"
    /\ gitPc = "idle"
    /\ gitCall.op \notin {"__init__", "set_repo_path"}

ReadOps == {"get_status", "get_branch", "get_diff", "get_log"}

\* the messages of the error notifications among signals, in order
ErrorTexts(signals) ==
    LET e == SelectSeq(signals, LAMBDA n : n.sig = "error_occurred")
    IN  [i \in 1..Len(e) |-> e[i].arg]

\* stderr, or the exception's text, of the commands among procs that did
\* not exit with 0, in order
FailureTexts(procs) ==
    LET f == SelectSeq(procs, LAMBDA p : ~IsOk(p.res))
    IN  [i \in 1..Len(f) |-> f[i].res.err]

\* the empty or absent result of a read operation
EmptyResult(op) ==
    CASE op = "get_status" -> EmptyDict
      [] op = "get_branch" -> Some(Unknown)
      [] op = "get_diff" -> None
      [] op = "get_log" -> Some(<<>>)

\* C11: every command of a call that exits non-zero or cannot be run is
\* answered by one error notification carrying its stderr or the text of
\* the exception, in the order of the commands, the call returns to its
\* caller, and a read operation whose command failed returns {} (get_status),
\* "unknown" (get_branch), None (get_diff), "" (get_log).
C11_FailureIsReported ==
    (VcsDone /\ gitProc # <<>>)
        => /\ ErrorTexts(gitSignals) = FailureTexts(gitProc)
           /\ (gitCall.op \in ReadOps /\ ~IsOk(gitProc[1].res))
                  => gitRet = EmptyResult(gitCall.op)

\* get_status has returned {} after its command exited with 1 and text on
\* stdout, and one error notification carries the command's stderr
C11_Witness ==
    /\ VcsDone
    /\ gitCall.op = "get_status"
    /\ gitProc # <<>>
    /\ gitProc[1].res.rc = 1
    /\ gitProc[1].res.out # <<>>
    /\ gitRet = EmptyDict
    /\ ErrorTexts(gitSignals) = <<"error: failed">>

\* a method of the window's GitManager has been called
VcsCalled ==
    /\ program = "ide"
    /\ gitCall.op \notin {"__init__", "set_repo_path"}

\* C12: with no repository path a call spawns no process and waits for
\* none, each notification it emits is the error "No repository path set",
\* there is at least one, and a read operation returns its empty or absent
\* result; with a path every process of the call has that path as its
\* working directory, and a call of an operation that runs one command has
\* exactly one process.
C12_FailFastOrOneProcess ==
    VcsCalled =>
        IF repo_path = NoPath
        THEN /\ gitProc = <<>>
             /\ gitPc = "idle"
             /\ gitSignals # <<>>
             /\ \A i \in 1..Len(gitSignals) :
                    /\ gitSignals[i].sig = "error_occurred"
                    /\ gitSignals[i].arg = "No repository path set"
             /\ gitCall.op \in ReadOps => gitRet = EmptyResult(gitCall.op)
        ELSE /\ gitProc # <<>>
             /\ \A i \in 1..Len(gitProc) : gitProc[i].cwd = repo_path
             /\ gitCall.op \in ReadOps => Len(gitProc) = 1

\* get_diff was called with no repository path: no process, one error,
\* None returned
C12_Witness ==
    /\ VcsCalled
    /\ repo_path = NoPath
    /\ gitCall.op = "get_diff"
    /\ gitProc = <<>>
    /\ gitRet = None
    /\ ErrorTexts(gitSignals) = <<"No repository path set">>

\* the signals of a kind among those of the call
SignalsOf(kind) == SelectSeq(gitSignals, LAMBDA n : n.sig = kind)

\* how many of the first i commands of the call did not exit with 0
FailedUpTo(i) == Cardinality({j \in 1..i : ~IsOk(gitProc[j].res)})

\* C13: a command that was killed at the 30-second timeout is answered by
\* an error notification with the timeout's text; its call emits no
\* snapshot if it was the status command, and no success message and runs
\* nothing more if it was add, commit, push or pull; a read operation
\* returns its empty or absent result.
C13_TimeoutIsAnError ==
    VcsDone =>
        \A i \in 1..Len(gitProc) :
            gitProc[i].res = TimedOut =>
                LET sub == gitProc[i].args[2]
                    k == FailedUpTo(i)
                IN  /\ gitProc[i].timeout = 30
                    /\ Len(SignalsOf("error_occurred")) >= k
                    /\ SignalsOf("error_occurred")[k].arg = TimedOut.err
                    /\ sub = "status" => SignalsOf("status_updated") = <<>>
                    /\ sub \in {"add", "commit", "push", "pull"}
                           => /\ SignalsOf("output_ready") = <<>>
                              /\ i = Len(gitProc)
                    /\ gitCall.op \in ReadOps
                           => gitRet = EmptyResult(gitCall.op)

\* pull looked up the branch, pulled, and its status refresh timed out: the
\* success message of the pull, then the timeout's error, and no snapshot
C13_Witness ==
    /\ VcsDone
    /\ gitCall.op = "pull"
    /\ Len(gitProc) = 3
    /\ IsOk(gitProc[2].res)
    /\ gitProc[3].res = TimedOut
    /\ Len(gitSignals) = 2
    /\ gitSignals[1].sig = "output_ready"
    /\ gitSignals[2] = Signal("error_occurred", TimedOut.err)

\* C14: a call of add_files or commit that has returned has run its
\* mutating command and, after it, the status command, however the mutating
\* command ended.
C14_RefreshAfterMutation ==
    (VcsDone /\ gitCall.op \in {"add_files", "commit"} /\ repo_path # NoPath)
        => /\ Len(gitProc) = 2
           /\ gitProc[1].args[2] = (IF gitCall.op = "add_files" THEN "add"
                                                                ELSE "commit")
           /\ gitProc[2].args[2] = "status"

\* C15: a push or pull called without arguments first runs the branch
\* command, and the command it runs next is `push origin <branch>` (or
\* pull), where <branch> is what get_branch made of the output of the
\* branch command of this very call; the call does not return before.
C15_BranchAtCallTime ==
    (VcsCalled /\ gitCall.op \in {"push", "pull"} /\ gitCall.args[2].isNone
       /\ repo_path # NoPath)
        => /\ gitProc # <<>>
           /\ gitProc[1].args = <<"git", "branch", "--show-current">>
           /\ gitPc = "idle" => Len(gitProc) >= 2
           /\ Len(gitProc) >= 2 =>
                  LET first == gitProc[1].res
                      reported == IF IsOk(first) /\ first.out # <<>>
                                  THEN Strip(first.out)
                                  ELSE Unknown
                  IN  gitProc[2].args
                        = <<"git", gitCall.op, "origin", reported>>

\* the branch pushed or pulled before was main; a push without arguments
\* found the branch dev and has pushed dev
C15_Witness ==
    /\ VcsDone
    /\ gitCall.op = "push"
    /\ gitCall.args[2].isNone
    /\ gitBefore.branch = Some(<<"m", "a", "i", "n">>)
    /\ Len(gitProc) = 2
    /\ gitProc[1].res.out = <<"d", "e", "v", "\n">>
    /\ gitProc[2].args = <<"git", "push", "origin", <<"d", "e", "v">>>>

-----------------------------------------------------------------------------
(* The claims about the task dispatchers *)

\* every worker thread of the running program
AllTasks ==
    {appTasks[i] : i \in 1..Len(appTasks)} \cup
    {ideTasks[i] : i \in 1..Len(ideTasks)}

\* the submit trigger of the running program is enabled
TriggerEnabled == IF program = "app" THEN btn_run ELSE btn_refactor

\* the handler that ran last is a submission
Submitted == uiEvent.h \in {"run_ai", "refactor_code"}

\* C5: after a submission for a provider that has no resolvable credential
\* no worker thread has been started: none runs and no signal is on its way.
C5_NoWorkerWithoutCredential ==
    (Submitted /\ uiEvent.cred = NoKey) => \A t \in AllTasks : Consumed(t)

\* C6: after a submission of empty or whitespace-only content no worker
\* runs, the submit trigger is enabled and no signal of a worker is on its
\* way to the window.
C6_EmptyInputStartsNothing ==
    (Submitted /\ Strip(uiEvent.content) = <<>>)
        => /\ TriggerEnabled
           /\ \A t \in AllTasks : Consumed(t)

\* whitespace-only code was submitted for refactoring after an earlier task
\* had run to its end
C6_Witness ==
    /\ uiEvent.h = "refactor_code"
    /\ uiEvent.content = <<" ", "\n">>
    /\ ideTasks # <<>>
    /\ btn_refactor

\* C7: once the window has handled the signal of a worker whose request
\* threw, it has got exactly one error signal with the thrown message and
\* the submit trigger is enabled again.
C7_ErrorReenablesSubmit ==
    \A t \in AllTasks :
        (Consumed(t) /\ t.outcome.kind = "raise")
            => /\ t.got = <<Signal("error", t.outcome.text)>>
               /\ TriggerEnabled

\* C8: a worker that has not ended has emitted nothing, a worker that has
\* ended has emitted exactly one signal, finished or error, and the window
\* handles it once.
C8_ExactlyOneNotification ==
    \A t \in AllTasks :
        /\ IsRunning(t) => t.pending = <<>> /\ t.got = <<>>
        /\ t.pc = "done" => Len(t.pending) + Len(t.got) = 1
        /\ \A n \in Range(t.pending) \cup Range(t.got) :
               n.sig \in {"finished", "error"}

\* a RefactorWorker's request threw and the window has handled its one
\* error signal
C8_Witness ==
    \E t \in AllTasks :
        /\ t.mode = "refactor"
        /\ t.provider = "anthropic"
        /\ t.outcome.kind = "raise"
        /\ Consumed(t)
        /\ Len(t.got) = 1

\* C9: at most one worker of a window is running at any time.
C9_AtMostOneRunning ==
    /\ Cardinality({i \in 1..Len(appTasks) : IsRunning(appTasks[i])}) <= 1
    /\ Cardinality({i \in 1..Len(ideTasks) : IsRunning(ideTasks[i])}) <= 1

\* an AIWorker runs and the window's trigger is disabled
C9_Witness ==
    /\ \E i \in 1..Len(appTasks) : IsRunning(appTasks[i])
    /\ ~btn_run

\* the most commands a call of an operation runs
Steps(op) ==
    CASE op \in ReadOps -> 1
      [] op \in {"add_files", "commit", "push"} -> 2
      [] op = "pull" -> 3

\* C17: a worker makes at most one provider call, however it ends, and a
\* call of a GitManager operation runs each of its commands at most once,
\* however they end: no command appears twice among its processes.
C17_NoRetry ==
    /\ \A t \in AllTasks : Len(t.requests) <= 1
    /\ VcsCalled =>
           /\ Len(gitProc) <= Steps(gitCall.op)
           /\ \A i, j \in 1..Len(gitProc) :
                  i # j => gitProc[i].args[2] # gitProc[j].args[2]

\* commit has returned after its command failed: the one process, no second
\* attempt
C17_Witness ==
    /\ VcsDone
    /\ gitCall.op = "commit"
    /\ Len(gitProc) = 1
    /\ ~IsOk(gitProc[1].res)
    /\ Len(gitSignals) = 1

\* C18: whatever has failed before, a step changes repo_path only if it is
\* set_repo_path, and a step that calls an operation while a path is set
\* runs the operation's first command in that path and waits for it.
C18_UsableAfterFailure ==
    [][ /\ repo_path' # repo_path => gitCall'.op = "set_repo_path"
        /\ (program = "ide" /\ gitPc = "idle" /\ repo_path # NoPath
              /\ gitCall'.op # "set_repo_path")
               => /\ gitPc' = "run"
                  /\ Len(gitProc') = 1
                  /\ gitProc'[1].cwd = repo_path
                  /\ gitProc'[1].res = Running ]_vars

\* an earlier call had a failure; commit has since been called and both of
\* its commands exited with 0
C18_Witness ==
    /\ VcsDone
    /\ gitBefore.failed
    /\ gitCall.op = "commit"
    /\ Len(gitProc) = 2
    /\ IsOk(gitProc[1].res)
    /\ IsOk(gitProc[2].res)
    /\ gitProc[2].cwd = repo_path

\* the text of a displayed item after its three-character prefix
ItemPaths(list) == {Drop(list[i], 1) : i \in 1..Len(list)}

\* C19: when a call has emitted a snapshot, the snapshot is the one
\* classified from the output of the status command of this call, and the
\* list displayed holds one item for each path of that snapshot, in the
\* order modified, added, deleted, untracked, and nothing else.
C19_SnapshotReplaced ==
    (VcsDone /\ SignalsOf("status_updated") # <<>>)
        => LET last == gitProc[Len(gitProc)]
               st == SignalsOf("status_updated")[1].arg
           IN  /\ Len(SignalsOf("status_updated")) = 1
               /\ last.args = <<"git", "status", "--porcelain">>
               /\ st = ParseStatus(last.res.out)
               /\ ItemPaths(git_status_list) = SnapshotPaths(st)
               /\ Len(git_status_list)
                     = Len(st.modified) + Len(st.added) + Len(st.deleted)
                       + Len(st.untracked)
               /\ git_status_list = StatusItems(st)

\* the list showed b as untracked and ab as added; a refresh whose output
\* names ab alone, as modified, has left the one item of ab
C19_Witness ==
    /\ VcsDone
    /\ SignalsOf("status_updated") # <<>>
    /\ Len(gitBefore.list) = 2
    /\ <<"b">> \in ItemPaths(gitBefore.list)
    /\ git_status_list = << <<"M  ", "a", "b">> >>

\* the provider of the model the last submission chose
SubmittedProvider ==
    IF uiEvent.h = "run_ai" THEN MODELS_CONFIG[uiEvent.model].provider
                            ELSE MODELS[uiEvent.model].type

\* the settings store of the running program
Store == IF program = "app" THEN appStore ELSE ideStore

\* C16: when the environment variable and the settings store both hold a key
\* for the provider of a submission, the key resolved for it is the one of
\* the environment variable.
C16_EnvironmentFirst ==
    (Submitted /\ env[SubmittedProvider] # NoKey
       /\ Store[SubmittedProvider] # NoKey)
        => uiEvent.cred = env[SubmittedProvider]

\* the keys a provider has now: in the environment, in the settings store
KeysNow(p) == {env[p], Store[p]} \ {NoKey}

\* C20: the key a worker is given is one the provider has, in the
\* environment or in the settings store, at the step that resolves it (the
\* submission in Tunner Suite, the creation of the backend in GenAI Studio),
\* whatever keys earlier workers were given, and the request the worker
\* makes carries that key.
C20_KeyResolvedPerTask ==
    [][ /\ (btn_run /\ ~btn_run')
              => appTasks'[Len(appTasks')].key
                   \in KeysNow(appTasks'[Len(appTasks')].provider)
        /\ \A i \in 1..Len(ideTasks) :
               (i <= Len(ideTasks') /\ ideTasks[i].pc = "create"
                  /\ ideTasks'[i].pc = "call")
                   => ideTasks'[i].key \in KeysNow(ideTasks'[i].provider)
        /\ \A i \in 1..Len(appTasks) :
               (i <= Len(appTasks') /\ appTasks[i].pc = "call"
                  /\ appTasks'[i].pc = "done")
                   => \A k \in 1..Len(appTasks'[i].requests) :
                          appTasks'[i].requests[k].key = appTasks[i].key
        /\ \A i \in 1..Len(ideTasks) :
               (i <= Len(ideTasks') /\ ideTasks[i].pc = "call"
                  /\ ideTasks'[i].pc = "done")
                   => \A k \in 1..Len(ideTasks'[i].requests) :
                          ideTasks'[i].requests[k].key = ideTasks[i].key
      ]_vars

\* the provider call made last carried the key typed first; the key was
\* typed anew, and the worker submitted since has the new key
C20_Witness ==
    /\ lastKey = TypedKey
    /\ \E i \in 1..Len(appTasks) :
           /\ appTasks[i].pc = "call"
           /\ appTasks[i].key = RetypedKey
           /\ appStore[appTasks[i].provider] = RetypedKey

\* the workers of the running program, and for each one that runs the key
\* its provider call carries: the key it holds, or while a RefactorWorker
\* has not created its backend the key AIProviderFactory.create would read
Tasks == IF program = "app" THEN appTasks ELSE ideTasks

KeysInUse ==
    [i \in 1..Len(Tasks) |->
        IF ~IsRunning(Tasks[i]) THEN NoKey
        ELSE IF Tasks[i].pc = "create"
        THEN AIProviderFactory_create(Tasks[i].model, env, ideStore).key
        ELSE Tasks[i].key]

\* C21: a save of the settings dialog while a worker runs does not change
\* the key that worker's provider call carries: the worker uses the key
\* that could be resolved when it was submitted.
C21_SaveCannotChangeKey ==
    [][ Store' # Store => KeysInUse' = KeysInUse ]_vars

\* C22: a worker whose provider call returned emits exactly one signal,
\* finished, whose text is the text the provider returned, unchanged, in
\* both programs and for every family of provider.
C22_ResultAsReturned ==
    \A t \in AllTasks :
        (t.pc = "done" /\ t.outcome.kind = "return")
            => t.pending \o t.got = <<Signal("finished", t.outcome.text)>>

\* a RefactorWorker's messages request returned the empty text and the
\* window has handled its finished signal
C22_Witness ==
    \E t \in AllTasks :
        /\ t.mode = "refactor"
        /\ t.requests # <<>>
        /\ t.requests[1].family = "messages"
        /\ t.outcome = Returned("")
        /\ t.got = <<Signal("finished", "")>>

\* C24: a call of get_diff or get_log runs at most its one command and no
\* status command, emits no status_updated and no output_ready, leaves the
\* displayed status as it was, and when its command exits 0 returns what
\* the command printed, unchanged.
C24_PureReads ==
    (VcsDone /\ gitCall.op \in {"get_diff", "get_log"})
        => /\ Len(gitProc) <= 1
           /\ \A i \in 1..Len(gitProc) :
                  gitProc[i].args[2] = (IF gitCall.op = "get_diff"
                                        THEN "diff" ELSE "log")
           /\ \A i \in 1..Len(gitSignals) :
                  gitSignals[i].sig = "error_occurred"
           /\ git_status_list = gitBefore.list
           /\ (gitProc # <<>> /\ IsOk(gitProc[1].res))
                  => /\ gitRet = Some(gitProc[1].res.out)
                     /\ gitSignals = <<>>

\* get_log has returned the line git printed while the window displays the
\* status of an earlier refresh
C24_Witness ==
    /\ VcsDone
    /\ gitCall.op = "get_log"
    /\ gitProc # <<>>
    /\ IsOk(gitProc[1].res)
    /\ gitRet = Some(<<"1", "f", " ", "x", "\n">>)
    /\ git_status_list # <<>>

\* push or pull was called without a branch and its branch lookup failed:
\* there was no repository path, or the branch command did not exit with 0
LookupFailed ==
    /\ gitCall.op \in {"push", "pull"}
    /\ gitCall.args[2].isNone
    /\ \/ repo_path = NoPath
       \/ gitProc # <<>> /\ gitProc[1].res # Running /\ ~IsOk(gitProc[1].res)

\* the push or pull step of such a call was run with the branch "unknown"
UnknownBranchStep ==
    repo_path # NoPath
        => /\ Len(gitProc) >= 2
           /\ gitProc[2].args
                = <<"git", gitCall.op, gitCall.args[1], Unknown>>

\* C27 as stated: after a failed branch lookup the push or pull step is
\* still run, with the branch "unknown", and the call emits two error
\* notifications.
C27_TwoErrors ==
    (VcsDone /\ LookupFailed)
        => /\ UnknownBranchStep
           /\ Len(ErrorTexts(gitSignals)) = 2

\* C27 as amended: after a failed branch lookup the push or pull step is
\* still run, with the branch "unknown"; the call emits the lookup's error
\* and one error more for every later command that fails (with no
\* repository path both steps report the missing path), and when the push or
\* pull command exits 0 its success line names the branch "unknown".
C27_UnknownBranchUsed ==
    (VcsDone /\ LookupFailed)
        => /\ UnknownBranchStep
           /\ IF repo_path = NoPath
              THEN /\ gitProc = <<>>
                   /\ Len(ErrorTexts(gitSignals)) = 2
                   /\ Len(gitSignals) = 2
              ELSE /\ ErrorTexts(gitSignals) = FailureTexts(gitProc)
                   /\ IsOk(gitProc[2].res)
                        => \E i \in 1..Len(gitSignals) :
                             /\ gitSignals[i].sig = "output_ready"
                             /\ gitSignals[i].arg
                                  = <<IF gitCall.op = "push"
                                      THEN "Pushed to " ELSE "Pulled from ",
                                      gitCall.args[1], "/">> \o Unknown
                   /\ ~IsOk(gitProc[2].res)
                        => /\ Len(gitProc) = 2
                           /\ Len(gitSignals) = 2

\* the branch command of a push could not be launched, the push command
\* exited with 0, and the call emitted one error and "Pushed to
\* origin/unknown"
C27_Witness ==
    /\ VcsDone
    /\ gitCall.op = "push"
    /\ LookupFailed
    /\ Len(gitProc) = 2
    /\ gitProc[1].res = LaunchFailed
    /\ IsOk(gitProc[2].res)
    /\ Len(ErrorTexts(gitSignals)) = 1
    /\ Len(gitSignals) = 2

MutatingOps == {"add_files", "commit", "push", "pull"}

\* the subcommand an operation runs to do its work
SubcommandOf(op) == IF op = "add_files" THEN "add" ELSE op

\* where among the processes of the call made last its mutating command is
MutatingAt ==
    {i \in 1..Len(gitProc) : gitProc[i].args[2] = SubcommandOf(gitCall.op)}

\* C28: a call of add_files, commit, push or pull runs its mutating command
\* at most once (once when there is a repository path); when that command
\* exits 0 the call emits one output_ready for it and no error_occurred,
\* when it fails one error_occurred with its stderr and no output_ready at
\* all; a call that ran no mutating command emits no output_ready.
C28_OneNotificationPerCommand ==
    (VcsDone /\ gitCall.op \in MutatingOps)
        => /\ Cardinality(MutatingAt) <= 1
           /\ repo_path # NoPath => MutatingAt # {}
           /\ repo_path # NoPath
                  => ErrorTexts(gitSignals) = FailureTexts(gitProc)
           /\ Len(SignalsOf("output_ready"))
                = Cardinality({i \in MutatingAt : IsOk(gitProc[i].res)})
           /\ \A i \in MutatingAt :
                  LET n == gitSignals[FailedUpTo(i - 1) + 1]
                  IN  IF IsOk(gitProc[i].res)
                      THEN n.sig = "output_ready"
                      ELSE /\ n = Signal("error_occurred", gitProc[i].res.err)
                           /\ Len(gitSignals) = FailedUpTo(i - 1) + 1

\* git add exited with 0 and printed nothing: add_files emitted its
\* output_ready first
C28_Witness ==
    /\ VcsDone
    /\ gitCall.op = "add_files"
    /\ gitProc # <<>>
    /\ gitProc[1].res = Exit(0, <<>>, "")
    /\ Len(SignalsOf("output_ready")) = 1
    /\ gitSignals[1].sig = "output_ready"

\* where among the processes of the call made last the status command is
StatusAt == {i \in 1..Len(gitProc) : gitProc[i].args[2] = "status"}

\* C29: a call of add_files, commit, push or pull runs the status command
\* exactly when the operation is add_files, commit or pull and its mutating
\* command exited with 0, and then once, after that command; a push runs no
\* status command and leaves the displayed status as it was; and a call
\* whose status command failed emits no status_updated and leaves the
\* displayed status as it was before the call.
C29_RefreshOnlyAfterSuccess ==
    /\ (VcsDone /\ gitCall.op \in MutatingOps)
           => /\ StatusAt # {}
                    <=> /\ gitCall.op \in {"add_files", "commit", "pull"}
                        /\ \E i \in MutatingAt : IsOk(gitProc[i].res)
              /\ \A i \in StatusAt :
                     i = Len(gitProc) /\ i - 1 \in MutatingAt
              /\ gitCall.op = "push"
                     => /\ SignalsOf("status_updated") = <<>>
                        /\ git_status_list = gitBefore.list
    /\ (VcsDone /\ \E i \in StatusAt : ~IsOk(gitProc[i].res))
           => /\ SignalsOf("status_updated") = <<>>
              /\ git_status_list = gitBefore.list

\* a pull worked, the status command after it failed, and the window still
\* displays the items of the refresh before
C29_Witness ==
    /\ VcsDone
    /\ gitCall.op = "pull"
    /\ \E i \in MutatingAt : IsOk(gitProc[i].res)
    /\ \E i \in StatusAt : ~IsOk(gitProc[i].res)
    /\ git_status_list # <<>>
    /\ git_status_list = gitBefore.list

-----------------------------------------------------------------------------
(* The claims about the git panel *)

\* C23: commit runs `git commit -m message` for every message it is given,
\* the empty one too, and validates nothing; every call of commit that
\* git_commit makes has a message that is not empty after trimming.
C23_NoEmptyCommit ==
    /\ (gitCall.op = "commit" /\ repo_path # NoPath)
           => /\ gitProc # <<>>
              /\ gitProc[1].args = <<"git", "commit", "-m", gitCall.args[1]>>
    /\ gitCaller = "git_commit"
           => /\ gitCall.op = "commit"
              /\ Strip(gitCall.args[1]) # <<>>

\* commit was called with the empty message by another caller and ran git;
\* then git_commit ran on an input of one blank and called nothing
C23_Witness ==
    /\ uiEvent.h = "git_commit"
    /\ uiEvent.content = <<" ">>
    /\ gitCaller = ""
    /\ gitCall.op = "commit"
    /\ gitCall.args[1] = <<>>
    /\ gitProc # <<>>

\* C30: once a git_commit that passed its check has returned, the commit
\* message input is empty, whether the commit command worked or failed.
C30_InputClearedAfterCommit ==
    (/\ uiEvent.h = "git_commit"
     /\ Strip(uiEvent.content) # <<>>
     /\ gitPc = "idle")
        => git_commit_input = <<>>

\* git_commit ran on " fix ", the commit command failed, and the input is
\* empty
C30_Witness ==
    /\ uiEvent.h = "git_commit"
    /\ uiEvent.content = <<" ", "f", "i", "x", " ">>
    /\ gitCaller = "git_commit"
    /\ gitPc = "idle"
    /\ gitProc # <<>>
    /\ HadFailure(gitSignals)
    /\ git_commit_input = <<>>

-----------------------------------------------------------------------------
(* The claims about the debugger *)

\* the lines of a program with a pdb line right before each line whose
\* 1-based number is a breakpoint
ExpectedLines(lines, bps) ==
    Concat([i \in 1..Len(lines) |->
               IF i \in bps THEN <<PdbLine, lines[i]>> ELSE <<lines[i]>>])

\* a step in which debug_code started a child process
DebugStarted ==
    /\ dbgCall'.op = "debug_code"
    /\ Len(children') = Len(children) + 1

\* debug_code was given no file path, or the file at the path it was given
\* holds the very text it was given
FileHoldsCode ==
    dbgCall'.filepath = NoFilePath \/ dbgRan' = dbgCall'.code

\* C25: the program debug_code starts python3 on is the text it was given
\* with a pdb line right before each line whose number is a breakpoint
\* within 1..len(lines), and no other change, with a file path (whose file
\* holds that text) and without.
C25_PdbBeforeEachBreakpoint ==
    [][ (DebugStarted /\ FileHoldsCode)
          => SplitLines(dbgRan')
               = ExpectedLines(SplitLines(dbgCall'.code), breakpoints) ]_vars

\* C26: once stop() has returned, no child process that run_code or
\* debug_code started is running, whatever calls were made before.
C26_StopStopsAll ==
    dbgCall.op = "stop"
        => \A i \in 1..Len(children) : children[i].state = "NotRunning"

-----------------------------------------------------------------------------
(* The claim about truncation *)

\* the characters of the content in a prompt: contents are made of p, q, r,
\* which no instruction and no literal piece of a prompt holds
ContentIn(prompt) == SelectSeq(prompt, LAMBDA c : c \in {"p", "q", "r"})

\* the limit of the mode a worker sends in: code for RefactorWorker
LimitOf(mode) == IF mode = "edu" THEN EduLimit ELSE CodeLimit

\* C10: the prompt a worker builds holds the first N characters of the
\* content and nothing after them (N = 20000 for code, 30000 for documents),
\* and the whole content when it is not longer than N.
C10_Truncated ==
    \A i \in 1..Len(promptOut) :
        ContentIn(promptOut[i].prompt)
          = SubSeq(promptIn.content, 1,
                   IF Len(promptIn.content) < LimitOf(promptIn.mode)
                   THEN Len(promptIn.content)
                   ELSE LimitOf(promptIn.mode))

=============================================================================
